---- MODULE Spec2Model ----
(***************************************************************************)
(* Compensation orchestration of restate-saga: the hybrid and strict step  *)
(* wrappers (steps.ts / container.ts), the terminal error resolution       *)
(* (error-registry.ts) and the workflow runner (createSagaWorkflow.run).   *)
(*                                                                         *)
(* One top-level invocation is modelled.  The handler is user code: it     *)
(* calls steps one after another, may catch the error of a step, may throw *)
(* on its own, or returns.  The forward and the compensation actions are   *)
(* user code run by the durable step executor (ctx.run): their outcome is  *)
(* a nondeterministic choice.                                              *)
(***************************************************************************)
EXTENDS Integers, Sequences, FiniteSets, TLC

\* ---------------------------------------------------------------- bounds
\* The handler calls at most MaxSteps steps in one invocation.
MaxSteps == 3
\* The handler catches at most MaxCatches errors in one invocation.
MaxCatches == 1
\* At most MaxEmbeds embedded invocations (runAsStep, runNestedSaga, a saga
\* module) are made, nested or one after the other.
MaxEmbeds == 2
\* At most MaxOps register, unregister and clear operations are recorded.
MaxOps == 3
\* At most MaxInvocations top-level invocations are started.
MaxInvocations == 3

\* ---------------------------------------------------------------- values
\* JavaScript's undefined and null.
Undefined == "undefined"
Null == "null"

\* The input the handler passes to its k-th step call: the handler computes
\* it from its own input and the outputs so far, so every call has its own.
InputOf(k) == <<"in1", "in2", "in3", "in4", "in5", "in6">>[k]

\* compensationData values a forward action can hand to StepResponse.
CompDataValues == {Undefined, Null, "cd1"}

\* Messages a forward action can hand to StepResponse.permanentFailure.
FailureMessages == {"", "capture failed"}

\* restate.TerminalError(message)
TerminalError(message) == [kind |-> "TerminalError", message |-> message]

\* e instanceof restate.TerminalError
IsTerminalError(e) == e.kind = "TerminalError"

\* Errors thrown by user code (forward actions, handler code).
ValidationError == [kind |-> "ValidationError", message |-> "invalid email"]
NetworkError == [kind |-> "NetworkError", message |-> "timeout"]
ThrownErrors == {ValidationError, NetworkError, TerminalError("fatal")}

\* Further values user code throws: an instance of a subclass of
\* ValidationError, and a value that is not an Error object.
EmailError == [kind |-> "EmailError", message |-> "no @ in address"]
StringError == [kind |-> "NonError", message |-> Undefined]

\* The values resolveTerminalError is called with.
ClassifiedErrors == ThrownErrors \cup {EmailError, StringError}

\* The error classes an application registers.
ErrorClasses == {"ValidationError", "NetworkError", "EmailError"}

\* The classes a value of a kind is an instance of (its prototype chain).
ClassChain(kind) ==
    CASE kind = "NonError" -> {}
      [] kind = "EmailError" -> {"EmailError", "ValidationError", "Error"}
      [] OTHER -> {kind, "Error"}

\* err instanceof cls
InstanceOf(err, cls) == cls \in ClassChain(err.kind)

\* The error a compensation action ends with when it does not complete.
CompensationError == TerminalError("compensation failed")

\* No error: the value of `thrown` and `result` while nothing was raised, and
\* the undefined an ErrorMapper returns.
NoError == [kind |-> "none", message |-> ""]

\* The normal result of an invocation.
Returned == [kind |-> "returned", message |-> ""]

\* Step-level asTerminalError mappers (SagaStepOptions.asTerminalError):
\* none configured, one that always defers, one that maps ValidationError.
StepMappers == {"none", "defer", "mapValidation"}

\* Mappers for setGlobalErrorMapper: one that maps NetworkError, one that
\* maps every value.
GlobalMappers == {"mapNetwork", "mapAny"}

\* ErrorMapper: (err) => TerminalError | undefined
ApplyMapper(mapper, err) ==
    CASE mapper = "mapValidation" /\ InstanceOf(err, "ValidationError") ->
             TerminalError("step: validation")
      [] mapper = "mapNetwork" /\ InstanceOf(err, "NetworkError") ->
             TerminalError("global: network")
      [] mapper = "mapAny" -> TerminalError("global: any")
      [] OTHER -> NoError

\* ---------------------------------------------------------------- state
VARIABLES
    pc,                   \* position of the runner / handler
    compensations,        \* saga.compensations: the Compensation Stack
    calls,                \* step calls made by the handler, in call order
    stepFailed,           \* per step call: the closure variable stepFailed
    compensationData,     \* per step call: the closure variable compensationData
    outcome,              \* per step call: what the forward action did
    thrown,               \* the error travelling up (in the handler / runner)
    raisedBy,             \* the step call that raised `thrown` (0: handler code)
    catches,              \* number of errors the handler caught
    idx,                  \* position of the runner's for-of over the stack
    result,               \* what the invocation ended with
    log,                  \* history: pushes, forward starts, compensation calls
    terminalErrorClasses, \* globalErrorConfig.terminalErrorClasses
    globalMapper,         \* globalErrorConfig.globalMapper
    classification,       \* the last call of resolveTerminalError and its result
    origin,               \* where `thrown` comes from: the value user code threw
    self,                 \* the top-level invocation whose code is executing
    suspended,            \* per invocation: its state while another one executes
    frames,               \* the handlers active in this invocation, outermost first
    caller,               \* the invocation awaiting this one (0: none)
    owner,                \* per step call: the invocation, handler and saga context
    unwinds,              \* history: who invoked each compensation
    operations,           \* history: the register, unregister and clear calls
    containerLog          \* history: the saga context each handler was given,
                          \* the scopes created and disposed

vars == <<pc, compensations, calls, stepFailed, compensationData, outcome,
          thrown, raisedBy, catches, idx, result, log, terminalErrorClasses,
          globalMapper, classification, origin, self, suspended, frames,
          caller, owner, unwinds, operations, containerLog>>

registryVars == <<terminalErrorClasses, globalMapper, operations>>

\* The state of the invocation.
invocationVars == <<pc, compensations, calls, stepFailed, compensationData,
                    outcome, thrown, raisedBy, catches, idx, result, log, origin,
                    self, suspended, frames, caller, owner, unwinds,
                    containerLog>>

\* The handlers in progress and the invocations beside the executing one.
compositionVars == <<self, suspended, frames, caller, owner, unwinds,
                     containerLog>>

\* The value user code threw and whether a classifier returned a terminal
\* error for it; NoOrigin when `thrown` was not thrown by a forward action.
Origin(err, classified) == [err |-> err, classified |-> classified]
NoOrigin == Origin(NoError, FALSE)

\* No call of resolveTerminalError was recorded.
NoClassification ==
    [err |-> NoError, stepMapper |-> "none", classes |-> {}, globalMapper |-> Null,
     run |-> [result |-> NoError, stepCalled |-> FALSE, globalCalled |-> FALSE],
     result |-> NoError]

\* ---------------------------------------------------------------- helpers
RECURSIVE Reverse(_)
\* Array.prototype.reverse
Reverse(s) == IF s = <<>> THEN <<>> ELSE Append(Reverse(Tail(s)), Head(s))

\* A log entry.  For a call of a compensate function, data is its first
\* argument and context the arguments after it: <<[failed |-> b]>> or <<>>.
Event(ev, step, data, context) ==
    [ev |-> ev, step |-> step, data |-> data, context |-> context]

\* ----------------------------------------- saga contexts and handler frames
\* A saga context is named by the invocation whose run created it.
\* Variant: one saga context, created once and shared by every invocation.
SagaContextShared(invocation) == 1

\* run: const saga = { ctx, compensations: [] }, a new object per invocation.
SagaContextOf(invocation) == invocation

\* Variant: the embedded invocation is given a saga context of its own.
EmbeddedContextFresh(parentSaga) == Len(suspended) + 1

\* runAsStep: handler(parentSaga, input); runNestedSaga: handler(saga);
\* createSagaModule returns the handler, which the caller calls with its saga.
EmbeddedContext(parentSaga) == parentSaga

\* A handler in progress: the saga context it was called with.  id 0 is the
\* handler called by run, id n the n-th embedded invocation.
Frame(id, saga) == [id |-> id, saga |-> saga]

\* The handler whose code is executing.
CurrentFrame == frames[Len(frames)]

\* The handlers in progress, outermost first, by id.
Path == [i \in 1..Len(frames) |-> frames[i].id]

\* The number of embedded invocations made so far.
Embeds == Cardinality({i \in 1..Len(log) : log[i].ev = "embed"})

\* Who made a step call: the invocation, the handlers in progress and the
\* saga context passed to the step.
Owner(invocation, path, saga) == [inv |-> invocation, path |-> path, saga |-> saga]

\* Who invoked a compensation: the invocation and how many handlers were in
\* progress in it.
Unwind(step, invocation, depth) == [step |-> step, inv |-> invocation, depth |-> depth]

\* The state of this invocation, as kept while another one executes.
Activation(at) ==
    [pc |-> at, compensations |-> compensations, thrown |-> thrown,
     raisedBy |-> raisedBy, idx |-> idx, result |-> result, frames |-> frames,
     origin |-> origin, caller |-> caller]

\* A saga context with nothing registered and no code executing.
EmptyContext(at) ==
    [pc |-> at, compensations |-> <<>>, thrown |-> NoError, raisedBy |-> 0,
     idx |-> 0, result |-> NoError, frames |-> <<>>, origin |-> NoOrigin,
     caller |-> 0]

\* saga.compensations of saga context c.
StackOf(c) == IF c = self THEN compensations ELSE suspended[c].compensations

\* Variant: unshift, the entry goes to the front of the array.
PushFront(stack, entry) == <<entry>> \o stack

\* Array.prototype.push
Push(stack, entry) == Append(stack, entry)

\* saga.compensations.push(entry) on the saga context the step was called with.
PushOnto(c, entry) ==
    /\ compensations' = IF c = self THEN Push(compensations, entry)
                        ELSE compensations
    /\ suspended' = IF c = self THEN suspended
                    ELSE [suspended EXCEPT ![c].compensations = Push(@, entry)]

\* The step call this invocation is in: its latest one.
CurrentCall ==
    CHOOSE k \in 1..Len(calls) :
        /\ owner[k].inv = self
        /\ \A j \in (k + 1)..Len(calls) : owner[j].inv # self

\* ------------------------------------------------------- error-registry.ts
\* The result of a classifier function together with the mappers it called.
Resolution(res, stepCalled, globalCalled) ==
    [result |-> res, stepCalled |-> stepCalled, globalCalled |-> globalCalled]

\* Variant: the global mapper asked before the registered classes.
checkGlobalMapperFirst(err) ==
    IF globalMapper # Null /\ ApplyMapper(globalMapper, err) # NoError
    THEN Resolution(ApplyMapper(globalMapper, err), FALSE, TRUE)
    ELSE IF InstanceOf(err, "Error")
            /\ \E errorClass \in terminalErrorClasses : InstanceOf(err, errorClass)
         THEN Resolution(TerminalError(err.message), FALSE, globalMapper # Null)
         ELSE Resolution(NoError, FALSE, globalMapper # Null)

\* Variant: any thrown value is taken for an instance of a registered class.
checkGlobalAnyValue(err) ==
    IF terminalErrorClasses # {}
    THEN Resolution(TerminalError(err.message), FALSE, FALSE)
    ELSE IF globalMapper # Null
         THEN Resolution(ApplyMapper(globalMapper, err), FALSE, TRUE)
         ELSE Resolution(NoError, FALSE, FALSE)

\* Variant: the classifier works on the registry as it was when the module
\* was loaded, nothing registered and no global mapper.
checkGlobalAtLoad(err) == Resolution(NoError, FALSE, FALSE)

\* checkGlobalTerminalError(err), with the record of the mapper it called
checkGlobal(err) ==
    IF InstanceOf(err, "Error")
       /\ \E errorClass \in terminalErrorClasses : InstanceOf(err, errorClass)
    THEN Resolution(TerminalError(err.message), FALSE, FALSE)
    ELSE IF globalMapper # Null
         THEN Resolution(ApplyMapper(globalMapper, err), FALSE, TRUE)
         ELSE Resolution(NoError, FALSE, FALSE)

\* checkGlobalTerminalError(err)
checkGlobalTerminalError(err) == checkGlobal(err).result

\* Variant: the global configuration asked before the step-level mapper.
resolveGlobalFirst(err, stepMapper) ==
    IF checkGlobal(err).result # NoError
    THEN checkGlobal(err)
    ELSE IF stepMapper # "none"
         THEN Resolution(ApplyMapper(stepMapper, err), TRUE,
                         checkGlobal(err).globalCalled)
         ELSE checkGlobal(err)

\* Variant: a step-level mapper, when present, decides alone.
resolveStepOnly(err, stepMapper) ==
    IF stepMapper # "none"
    THEN Resolution(ApplyMapper(stepMapper, err), TRUE, FALSE)
    ELSE checkGlobal(err)

\* resolveTerminalError(err, stepMapper), with the record of the mappers it
\* called
resolve(err, stepMapper) ==
    IF stepMapper # "none" /\ ApplyMapper(stepMapper, err) # NoError
    THEN Resolution(ApplyMapper(stepMapper, err), TRUE, FALSE)
    ELSE [checkGlobal(err) EXCEPT !.stepCalled = stepMapper # "none"]

\* resolveTerminalError(err, stepMapper)
resolveTerminalError(err, stepMapper) == resolve(err, stepMapper).result

\* The record of a call resolveTerminalError(err, stepMapper): its arguments,
\* the registry it read, the mappers it called and its result.
Classification(err, stepMapper) ==
    [err |-> err, stepMapper |-> stepMapper,
     classes |-> terminalErrorClasses, globalMapper |-> globalMapper,
     run |-> resolve(err, stepMapper),
     result |-> resolveTerminalError(err, stepMapper)]

\* Variant: an error no classifier recognised is wrapped in a TerminalError.
MapThrownWrapping(err, stepMapper) ==
    IF resolveTerminalError(err, stepMapper) # NoError
    THEN resolveTerminalError(err, stepMapper)
    ELSE TerminalError(err.message)

\* The error the closure handed to ctx.run throws for a thrown err.
MapThrown(err, stepMapper) ==
    IF resolveTerminalError(err, stepMapper) # NoError
    THEN resolveTerminalError(err, stepMapper)
    ELSE err

\* ---------------------------------------------------------------- steps.ts
\* StepResponse constructor and StepResponse.permanentFailure
StepResponse(cd) ==
    [failed |-> FALSE, compensationData |-> cd, errorMessage |-> Undefined]
permanentFailure(message, cd) ==
    [failed |-> TRUE, compensationData |-> cd, errorMessage |-> message]

Responses ==
    {StepResponse(cd) : cd \in CompDataValues}
    \cup {permanentFailure(m, cd) : m \in FailureMessages, cd \in CompDataValues}

\* Variant: the message of the response taken as it is.
FailureErrorVerbatim(response) == TerminalError(response.errorMessage)

\* response.errorMessage || "Step failed permanently"
FailureError(response) ==
    TerminalError(IF response.errorMessage \in {"", Undefined}
                  THEN "Step failed permanently"
                  ELSE response.errorMessage)

\* The entry a hybrid step pushes: a closure over the step call's variables.
HybridEntry(k) == [mode |-> "hybrid", step |-> k, data |-> Undefined]
\* Variant: the strict entry falls back to the input like the hybrid one.
StrictEntryMut(k, cd) ==
    [mode |-> "strict", step |-> k, data |-> IF cd # Undefined THEN cd ELSE InputOf(k)]

\* The entry a strict step pushes: it holds response.compensationData.
StrictEntry(k, cd) == [mode |-> "strict", step |-> k, data |-> cd]

\* Variant: no fallback to the input.
HybridDataMut(k) == compensationData[k]

\* The data a hybrid entry resolves when it is invoked.
HybridData(k) ==
    IF compensationData[k] # Undefined THEN compensationData[k] ELSE calls[k].input

\* Variant: the hybrid wrapper registers without looking at opts.compensate.
HybridPushesAlways(call) == TRUE

\* Variant: the hybrid wrapper does not register before the forward action.
HybridPushesMut(call) == FALSE

\* if (opts.compensate) before the forward action of a hybrid step.
HybridPushes(call) == call.compensate

\* Variant: the strict wrapper registers whatever the response.
StrictPushesMut(call, response) == call.compensate

\* if (opts.compensate), reached by a strict step only after the check of
\* response.failed.
StrictPushes(call, response) == ~response.failed /\ call.compensate

\* Variant: let stepFailed = false
InitialStepFailedMut == FALSE

\* let stepFailed = true
InitialStepFailed == TRUE

\* What the forward action of a step call did: kind is "pending", "success",
\* "permanentFailure", "threwTerminal" or "threw"; data is the
\* compensationData of the response it returned.
Outcome(kind, data) == [kind |-> kind, data |-> data]

\* createSagaStep / createContainerStep: the wrapper up to the await of the
\* forward action.  createSagaStepStrict: nothing happens before that await.
StepCall(mode, compensate) ==
    /\ pc = "running"
    /\ Len(calls) < MaxSteps
    /\ LET k == Len(calls) + 1
           call == [mode |-> mode, compensate |-> compensate, input |-> InputOf(k)]
           pushes == mode = "hybrid" /\ HybridPushes(call)
       IN /\ calls' = Append(calls, call)
          /\ owner' = Append(owner, Owner(self, Path, CurrentFrame.saga))
          /\ stepFailed' = Append(stepFailed, InitialStepFailed)
          /\ compensationData' = Append(compensationData, Undefined)
          /\ outcome' = Append(outcome, Outcome("pending", Undefined))
          /\ IF pushes THEN PushOnto(CurrentFrame.saga, HybridEntry(k))
             ELSE UNCHANGED <<compensations, suspended>>
          /\ log' = log \o (IF pushes THEN <<Event("push", k, Undefined, <<>>)>>
                            ELSE <<>>)
                        \o <<Event("run", k, Undefined, <<>>)>>
    /\ pc' = "inStep"
    /\ UNCHANGED <<thrown, raisedBy, idx, result, catches, registryVars,
                   classification, origin, self, frames, caller, unwinds,
                   containerLog>>

\* Variant: a hybrid step that fails takes its entry off the stack before it
\* throws.
StepReturnsWithdrawing(response) ==
    /\ pc = "inStep"
    /\ LET k == CurrentCall
           call == calls[k]
       IN /\ outcome' = [outcome EXCEPT ![k] =
                            Outcome(IF response.failed THEN "permanentFailure"
                                    ELSE "success", response.compensationData)]
          /\ IF call.mode = "hybrid"
             THEN /\ compensationData' =
                        [compensationData EXCEPT ![k] = response.compensationData]
                  /\ stepFailed' = IF response.failed THEN stepFailed
                                    ELSE [stepFailed EXCEPT ![k] = FALSE]
                  /\ compensations' =
                        IF response.failed
                        THEN SelectSeq(compensations, LAMBDA entry : entry.step # k)
                        ELSE compensations
                  /\ UNCHANGED <<suspended, log>>
             ELSE /\ UNCHANGED <<compensationData, stepFailed>>
                  /\ IF StrictPushes(call, response)
                     THEN /\ PushOnto(owner[k].saga,
                                      StrictEntry(k, response.compensationData))
                          /\ log' = Append(log, Event("push", k, Undefined, <<>>))
                     ELSE UNCHANGED <<compensations, suspended, log>>
          /\ IF response.failed
             THEN /\ pc' = "thrown"
                  /\ thrown' = FailureError(response)
                  /\ raisedBy' = k
             ELSE /\ pc' = "running"
                  /\ UNCHANGED <<thrown, raisedBy>>
    /\ UNCHANGED <<calls, idx, result, catches, registryVars, classification,
                   origin, self, frames, caller, owner, unwinds, containerLog>>

\* The forward action returned a StepResponse: the rest of the wrapper.
StepReturns(response) ==
    /\ pc = "inStep"
    /\ LET k == CurrentCall
           call == calls[k]
       IN /\ outcome' = [outcome EXCEPT ![k] =
                            Outcome(IF response.failed THEN "permanentFailure"
                                    ELSE "success", response.compensationData)]
          /\ IF call.mode = "hybrid"
             THEN /\ compensationData' =
                        [compensationData EXCEPT ![k] = response.compensationData]
                  /\ stepFailed' = IF response.failed THEN stepFailed
                                    ELSE [stepFailed EXCEPT ![k] = FALSE]
                  /\ UNCHANGED <<compensations, suspended, log>>
             ELSE /\ UNCHANGED <<compensationData, stepFailed>>
                  /\ IF StrictPushes(call, response)
                     THEN /\ PushOnto(owner[k].saga,
                                      StrictEntry(k, response.compensationData))
                          /\ log' = Append(log, Event("push", k, Undefined, <<>>))
                     ELSE UNCHANGED <<compensations, suspended, log>>
          /\ IF response.failed
             THEN /\ pc' = "thrown"
                  /\ thrown' = FailureError(response)
                  /\ raisedBy' = k
             ELSE /\ pc' = "running"
                  /\ UNCHANGED <<thrown, raisedBy>>
    /\ UNCHANGED <<calls, idx, result, catches, registryVars, classification,
                   origin, self, frames, caller, owner, unwinds, containerLog>>

\* The forward action threw err: the catch inside the ctx.run closure.
StepThrows(err, stepMapper) ==
    /\ pc = "inStep"
    /\ LET k == CurrentCall
       IN /\ outcome' = [outcome EXCEPT ![k] =
                            Outcome(IF IsTerminalError(MapThrown(err, stepMapper))
                                    THEN "threwTerminal" ELSE "threw", Undefined)]
          /\ raisedBy' = k
    /\ thrown' = MapThrown(err, stepMapper)
    /\ origin' = Origin(err, resolveTerminalError(err, stepMapper) # NoError)
    /\ pc' = "thrown"
    /\ UNCHANGED <<compensations, calls, stepFailed, compensationData, idx,
                   result, log, catches, registryVars, classification,
                   compositionVars>>

\* ------------------------------------------------------------ the handler
\* Handler code outside any step throws.
HandlerThrows(err) ==
    /\ pc = "running"
    /\ thrown' = err
    /\ raisedBy' = 0
    /\ pc' = "thrown"
    /\ UNCHANGED <<compensations, calls, stepFailed, compensationData, outcome,
                   idx, result, log, catches, registryVars, classification, origin, compositionVars>>

\* The handler catches the error of a step and carries on.
HandlerCatches ==
    /\ pc = "thrown"
    /\ catches < MaxCatches
    /\ catches' = catches + 1
    /\ thrown' = NoError
    /\ raisedBy' = 0
    /\ origin' = NoOrigin
    /\ pc' = "running"
    /\ UNCHANGED <<compensations, calls, stepFailed, compensationData, outcome,
                   idx, result, log, registryVars, classification,
                   compositionVars>>

\* ---------------------------------------------- createSagaWorkflow: run
\* run: a new saga context, then the handler starts.
Invoke ==
    /\ pc = "idle"
    /\ compensations' = <<>>
    /\ frames' = <<Frame(0, SagaContextOf(self))>>
    /\ pc' = "running"
    /\ UNCHANGED <<calls, stepFailed, compensationData, outcome, thrown,
                   raisedBy, idx, result, log, catches, registryVars,
                   classification, origin, self, suspended, caller, owner,
                   unwinds>>

\* Variant: the runner empties the stack when the handler returns.
HandlerReturnsClearing ==
    /\ pc = "running"
    /\ Len(frames) = 1
    /\ pc' = "succeeded"
    /\ result' = Returned
    /\ compensations' = <<>>
    /\ UNCHANGED <<calls, stepFailed, compensationData, outcome, thrown,
                   raisedBy, idx, log, catches, registryVars, classification, origin, compositionVars>>

\* Variant: the stack unwound in a finally block, on a normal return too.
HandlerReturnsMut ==
    /\ pc = "running"
    /\ Len(frames) = 1
    /\ pc' = "unwinding"
    /\ result' = Returned
    /\ compensations' = Reverse(compensations)
    /\ idx' = 1
    /\ UNCHANGED <<calls, stepFailed, compensationData, outcome, thrown,
                   raisedBy, log, catches, registryVars, classification, origin, compositionVars>>

\* return await handler(saga, input)
HandlerReturns ==
    /\ pc = "running"
    /\ Len(frames) = 1
    /\ pc' = "succeeded"
    /\ result' = Returned
    /\ UNCHANGED <<compensations, calls, stepFailed, compensationData, outcome,
                   thrown, raisedBy, idx, log, catches, registryVars, classification, origin, compositionVars>>

\* Variant: the runner asks the classifier about the error it caught.
RunnerUnwindsClassifying(e) ==
    IsTerminalError(e) \/ resolveTerminalError(e, "none") # NoError

\* Variant: the runner unwinds for every error.
RunnerUnwindsMut(e) == TRUE

\* if (e instanceof restate.TerminalError)
RunnerUnwinds(e) == IsTerminalError(e)

\* Variant: the stack walked in push order.
UnwindOrderMut(stack) == stack

\* saga.compensations.reverse(): in place, the loop then walks the array.
UnwindOrder(stack) == Reverse(stack)

\* Variant: the embedded invocation wraps its handler in try/catch as run does.
EmbeddedCatches(depth) == TRUE

\* Only run wraps the handler in try/catch: the catch is reached when the
\* error has left the outermost handler.
OutermostCatches(depth) == depth = 1

\* catch (e): the error escaped the handler.
RunnerCatches ==
    /\ pc = "thrown"
    /\ OutermostCatches(Len(frames))
    /\ IF RunnerUnwinds(thrown)
       THEN /\ compensations' = UnwindOrder(compensations)
            /\ idx' = 1
            /\ pc' = "unwinding"
            /\ UNCHANGED result
       ELSE /\ pc' = "raised"
            /\ result' = thrown
            /\ UNCHANGED <<compensations, idx>>
    /\ UNCHANGED <<calls, stepFailed, compensationData, outcome, thrown,
                   raisedBy, log, catches, registryVars, classification, origin, compositionVars>>

\* The call an entry makes to the step's compensate function.
EntryCall(entry) ==
    IF entry.mode = "hybrid"
    THEN Event("compensate", entry.step, HybridData(entry.step),
               <<[failed |-> stepFailed[entry.step]]>>)
    ELSE Event("compensate", entry.step, entry.data, <<>>)

\* Variant: the loop catches the error of a compensation and goes on.
CompensateBestEffort(ok) ==
    /\ pc = "unwinding"
    /\ idx <= Len(compensations)
    /\ log' = log \o <<EntryCall(compensations[idx])>>
                  \o (IF ok THEN <<>>
                      ELSE <<Event("compensateThrew", compensations[idx].step,
                                   Undefined, <<>>)>>)
    /\ idx' = idx + 1
    /\ unwinds' = Append(unwinds, Unwind(compensations[idx].step, self, Len(frames)))
    /\ UNCHANGED <<pc, result, compensations, calls, stepFailed,
                   compensationData, outcome, thrown, raisedBy, catches,
                   registryVars, classification, origin, self, suspended,
                   frames, caller, owner, containerLog>>

\* Variant: the loop passes over the entry that follows the one it invoked.
CompensateSkipping(ok) ==
    /\ pc = "unwinding"
    /\ idx <= Len(compensations)
    /\ log' = log \o <<EntryCall(compensations[idx])>>
                  \o (IF ok THEN <<>>
                      ELSE <<Event("compensateThrew", compensations[idx].step,
                                   Undefined, <<>>)>>)
    /\ IF ok
       THEN /\ idx' = idx + 2
            /\ UNCHANGED <<pc, result>>
       ELSE /\ pc' = "failed"
            /\ result' = CompensationError
            /\ UNCHANGED idx
    /\ unwinds' = Append(unwinds, Unwind(compensations[idx].step, self, Len(frames)))
    /\ UNCHANGED <<compensations, calls, stepFailed, compensationData, outcome,
                   thrown, raisedBy, catches, registryVars, classification,
                   origin, self, suspended, frames, caller, owner,
                   containerLog>>

\* await compensate(): one iteration of the for-of over the reversed stack.
Compensate(ok) ==
    /\ pc = "unwinding"
    /\ idx <= Len(compensations)
    /\ log' = log \o <<EntryCall(compensations[idx])>>
                  \o (IF ok THEN <<>>
                      ELSE <<Event("compensateThrew", compensations[idx].step,
                                   Undefined, <<>>)>>)
    /\ IF ok
       THEN /\ idx' = idx + 1
            /\ UNCHANGED <<pc, result>>
       ELSE /\ pc' = "failed"
            /\ result' = CompensationError
            /\ UNCHANGED idx
    /\ unwinds' = Append(unwinds, Unwind(compensations[idx].step, self, Len(frames)))
    /\ UNCHANGED <<compensations, calls, stepFailed, compensationData, outcome,
                   thrown, raisedBy, catches, registryVars, classification,
                   origin, self, suspended, frames, caller, owner,
                   containerLog>>

\* Variant: the runner returns normally once the loop has ended.
RethrowSwallowing ==
    /\ pc = "unwinding"
    /\ idx > Len(compensations)
    /\ pc' = "succeeded"
    /\ result' = Returned
    /\ UNCHANGED <<compensations, calls, stepFailed, compensationData, outcome,
                   thrown, raisedBy, idx, log, catches, registryVars, classification, origin, compositionVars>>

\* Variant: a new error raised after the loop in place of e.
RethrowMut ==
    /\ pc = "unwinding"
    /\ idx > Len(compensations)
    /\ pc' = "failed"
    /\ result' = TerminalError("saga failed")
    /\ UNCHANGED <<compensations, calls, stepFailed, compensationData, outcome,
                   thrown, raisedBy, idx, log, catches, registryVars, classification, origin, compositionVars>>

\* throw e: after the loop.
Rethrow ==
    /\ pc = "unwinding"
    /\ idx > Len(compensations)
    /\ pc' = "failed"
    /\ result' = thrown
    /\ UNCHANGED <<compensations, calls, stepFailed, compensationData, outcome,
                   thrown, raisedBy, idx, log, catches, registryVars, classification, origin, compositionVars>>

\* ------------------------------- runAsStep, runNestedSaga, createSagaModule
\* The handler calls another workflow's handler, a nested handler or a saga
\* module with the saga context it holds: a plain function call.
runAsStep ==
    /\ pc = "running"
    /\ Embeds < MaxEmbeds
    /\ LET saga == EmbeddedContext(CurrentFrame.saga)
       IN /\ frames' = Append(frames, Frame(Embeds + 1, saga))
          /\ suspended' = IF saga > Len(suspended)
                          THEN Append(suspended, EmptyContext("detached"))
                          ELSE suspended
    /\ log' = Append(log, Event("embed", Embeds + 1, Undefined, <<>>))
    /\ UNCHANGED <<pc, compensations, calls, stepFailed, compensationData,
                   outcome, thrown, raisedBy, idx, result, catches, registryVars,
                   classification, origin, self, caller, owner, unwinds>>

\* The embedded handler returns to the handler that called it.
EmbeddedReturns ==
    /\ pc = "running"
    /\ Len(frames) > 1
    /\ frames' = SubSeq(frames, 1, Len(frames) - 1)
    /\ UNCHANGED <<pc, compensations, calls, stepFailed, compensationData,
                   outcome, thrown, raisedBy, idx, result, log, catches,
                   registryVars, classification, origin, self, suspended,
                   caller, owner, unwinds, containerLog>>

\* An error leaves the embedded handler: nothing between it and the caller.
EmbeddedRaises ==
    /\ pc = "thrown"
    /\ Len(frames) > 1
    /\ frames' = SubSeq(frames, 1, Len(frames) - 1)
    /\ UNCHANGED <<pc, compensations, calls, stepFailed, compensationData,
                   outcome, thrown, raisedBy, idx, result, log, catches,
                   registryVars, classification, origin, self, suspended,
                   caller, owner, unwinds, containerLog>>

\* ------------------------------------------------------ container workflows
\* The workflows and the container each was created with.
Workflows == {"OrderWorkflow", "PaymentWorkflow"}

\* createContainerWorkflow(container, name, handler)
ContainerOf(workflow) ==
    IF workflow = "OrderWorkflow" THEN "orderContainer" ELSE "paymentContainer"

\* const services = container.cradle; saga = { ..., services, container }
Extension(container) == [services |-> <<"cradle", container>>, container |-> container]

\* An entry of containerLog.  "handler": the handler `frame` of invocation
\* `inv` belongs to a workflow created with container `own` and was called
\* with a saga whose services and container are `saga`.
ContainerEvent(ev, inv, frame, own, saga, error) ==
    [ev |-> ev, inv |-> inv, frame |-> frame, own |-> own, saga |-> saga,
     error |-> error]

\* The services and container of the saga a handler was called with.
GivenSaga(inv, frame) ==
    LET i == CHOOSE i \in 1..Len(containerLog) :
                 /\ containerLog[i].ev = "handler"
                 /\ containerLog[i].inv = inv
                 /\ containerLog[i].frame = frame
    IN containerLog[i].saga

\* createContainerWorkflow.run: the plain run with services and container
\* added to the saga object.
containerRun(workflow) ==
    /\ Invoke
    /\ containerLog' = Append(containerLog,
           ContainerEvent("handler", self, 0, ContainerOf(workflow),
                          Extension(ContainerOf(workflow)), NoError))

\* Variant: the embedded workflow takes services from its own container.
EmbeddedSagaOwn(parentSaga, container) == Extension(container)

\* createContainerWorkflow.runAsStep: handler(parentSaga, input)
EmbeddedSaga(parentSaga, container) == parentSaga

\* createContainerWorkflow.runAsStep
containerRunAsStep(workflow) ==
    /\ runAsStep
    /\ containerLog' = Append(containerLog,
           ContainerEvent("handler", self, Embeds + 1, ContainerOf(workflow),
                          EmbeddedSaga(GivenSaga(self, CurrentFrame.id),
                                       ContainerOf(workflow)), NoError))

\* createContainerStep: config.run(saga, input) and compensateFn(saga, data,
\* ...) are called with the saga the step was called with, the one its
\* handler holds.
SagaSeen(k) == GivenSaga(owner[k].inv, owner[k].path[Len(owner[k].path)])

\* ------------------------------------------------ several top-level invocations
\* run is called for a new invocation while this one is left at `at`.
Start(at, from) ==
    /\ Len(suspended) < MaxInvocations
    /\ LET invocation == Len(suspended) + 1
       IN /\ self' = invocation
          /\ suspended' = Append([suspended EXCEPT ![self] = Activation(at)],
                                 EmptyContext("executing"))
          /\ frames' = <<Frame(0, SagaContextOf(invocation))>>
    /\ caller' = from
    /\ compensations' = <<>>
    /\ pc' = "running"
    /\ thrown' = NoError
    /\ raisedBy' = 0
    /\ idx' = 0
    /\ result' = NoError
    /\ origin' = NoOrigin
    /\ UNCHANGED <<calls, stepFailed, compensationData, outcome, log, catches,
                   registryVars, classification, owner, unwinds>>

\* The places where an invocation in progress waits: between the steps of
\* its handler, for a forward action, for a compensation.  An error on its way
\* to the catch of run waits for nothing.
Awaits == {"running", "inStep", "unwinding"}

\* Another request arrives while this invocation is in progress.
InvokeConcurrently ==
    /\ pc \in Awaits
    /\ Start(pc, 0)

\* workflowClient(saga.ctx, workflow).run(input): the handler calls another
\* workflow through Restate and awaits its result.
workflowClientCall ==
    /\ pc = "running"
    /\ Start("awaiting", self)

\* This invocation's state is replaced by that of invocation j.
Resume(j, at) ==
    /\ self' = j
    /\ suspended' = [suspended EXCEPT ![self] = Activation(pc),
                                      ![j] = EmptyContext("executing")]
    /\ pc' = at
    /\ compensations' = suspended[j].compensations
    /\ raisedBy' = suspended[j].raisedBy
    /\ idx' = suspended[j].idx
    /\ result' = suspended[j].result
    /\ frames' = suspended[j].frames
    /\ caller' = suspended[j].caller

\* At an await, the code of another invocation in progress executes next.
Switch(j) ==
    /\ j \in 1..Len(suspended)
    /\ j # self
    /\ pc \in Awaits \cup {"succeeded", "raised", "failed"}
    /\ suspended[j].pc \in Awaits
    /\ Resume(j, suspended[j].pc)
    /\ thrown' = suspended[j].thrown
    /\ origin' = suspended[j].origin
    /\ UNCHANGED <<calls, stepFailed, compensationData, outcome, log, catches,
                   registryVars, classification, owner, unwinds, containerLog>>

\* The called workflow ended: the awaiting handler gets its result, or the
\* terminal error it ended with.
ClientCallReturns ==
    /\ caller # 0
    /\ \/ pc = "succeeded"
       \/ pc = "failed" /\ IsTerminalError(result)
    /\ suspended[caller].pc = "awaiting"
    /\ Resume(caller, IF pc = "succeeded" THEN "running" ELSE "thrown")
    /\ thrown' = IF pc = "succeeded" THEN NoError ELSE result
    /\ origin' = NoOrigin
    /\ UNCHANGED <<calls, stepFailed, compensationData, outcome, log, catches,
                   registryVars, classification, owner, unwinds, containerLog>>

\* ------------------------------------------------ attempts of one invocation
\* Variant: the next attempt goes on with the stack of the one before it.
ReinvokeKeepingStack ==
    /\ pc = "raised"
    /\ Len(suspended) < MaxInvocations
    /\ self' = Len(suspended) + 1
    /\ suspended' = Append([suspended EXCEPT ![self] = Activation("raised")],
                           EmptyContext("executing"))
    /\ frames' = <<Frame(0, SagaContextOf(Len(suspended) + 1))>>
    /\ caller' = 0
    /\ pc' = "running"
    /\ thrown' = NoError
    /\ raisedBy' = 0
    /\ idx' = 0
    /\ result' = NoError
    /\ origin' = NoOrigin
    /\ UNCHANGED <<compensations, calls, stepFailed, compensationData, outcome,
                   log, catches, registryVars, classification, owner, unwinds,
                   containerLog>>

\* The attempt ended by raising a non-terminal error: Restate invokes the
\* handler again, and run builds a new saga, compensations: [].
Reinvoke ==
    /\ pc = "raised"
    /\ Start("raised", 0)
    /\ UNCHANGED containerLog

\* ------------------------------------------- steps started before awaited
\* The handler calls a step wrapper and keeps the promise: the wrapper runs
\* up to its first await, that of the forward action, and the handler goes on.
StepStarts(mode, compensate) ==
    /\ pc = "running"
    /\ Len(calls) < MaxSteps
    /\ LET k == Len(calls) + 1
           call == [mode |-> mode, compensate |-> compensate, input |-> InputOf(k)]
           pushes == mode = "hybrid" /\ HybridPushes(call)
       IN /\ calls' = Append(calls, call)
          /\ owner' = Append(owner, Owner(self, Path, CurrentFrame.saga))
          /\ stepFailed' = Append(stepFailed, InitialStepFailed)
          /\ compensationData' = Append(compensationData, Undefined)
          /\ outcome' = Append(outcome, Outcome("pending", Undefined))
          /\ IF pushes THEN PushOnto(CurrentFrame.saga, HybridEntry(k))
             ELSE UNCHANGED <<compensations, suspended>>
          /\ log' = log \o (IF pushes THEN <<Event("push", k, Undefined, <<>>)>>
                            ELSE <<>>)
                        \o <<Event("run", k, Undefined, <<>>)>>
    /\ UNCHANGED <<pc, thrown, raisedBy, idx, result, catches, registryVars,
                   classification, origin, self, frames, caller, unwinds,
                   containerLog>>

\* The forward action of step call k returned a StepResponse and the rest
\* of its wrapper runs, wherever the handler and the runner are by then.  The
\* error of a failed step reaches the handler when it awaits the promises
\* (Promise.all); once the handler has settled it reaches nobody.
StepSettles(k, response) ==
    /\ pc \in {"running", "thrown", "unwinding", "compensating", "failed"}
    /\ k \in 1..Len(calls)
    /\ outcome[k].kind = "pending"
    /\ LET call == calls[k]
       IN /\ outcome' = [outcome EXCEPT ![k] =
                            Outcome(IF response.failed THEN "permanentFailure"
                                    ELSE "success", response.compensationData)]
          /\ IF call.mode = "hybrid"
             THEN /\ compensationData' =
                        [compensationData EXCEPT ![k] = response.compensationData]
                  /\ stepFailed' = IF response.failed THEN stepFailed
                                    ELSE [stepFailed EXCEPT ![k] = FALSE]
                  /\ UNCHANGED <<compensations, suspended, log>>
             ELSE /\ UNCHANGED <<compensationData, stepFailed>>
                  /\ IF StrictPushes(call, response)
                     THEN /\ PushOnto(owner[k].saga,
                                      StrictEntry(k, response.compensationData))
                          /\ log' = Append(log, Event("push", k, Undefined, <<>>))
                     ELSE UNCHANGED <<compensations, suspended, log>>
          /\ IF response.failed /\ pc = "running"
             THEN /\ pc' = "thrown"
                  /\ thrown' = FailureError(response)
                  /\ raisedBy' = k
             ELSE UNCHANGED <<pc, thrown, raisedBy>>
    /\ UNCHANGED <<calls, idx, result, catches, registryVars, classification,
                   origin, self, frames, caller, owner, unwinds, containerLog>>

\* Variant: the loop calls the next entry without awaiting the one it called.
CompensateStartsUnawaited ==
    /\ pc = "unwinding"
    /\ idx <= Len(compensations)
    /\ log' = Append(log, EntryCall(compensations[idx]))
    /\ idx' = idx + 1
    /\ unwinds' = Append(unwinds, Unwind(compensations[idx].step, self, Len(frames)))
    /\ UNCHANGED <<pc, result, compensations, calls, stepFailed,
                   compensationData, outcome, thrown, raisedBy, catches,
                   registryVars, classification, origin, self, suspended,
                   frames, caller, owner, containerLog>>

\* for (const compensate of saga.compensations.reverse()): the loop takes the
\* next entry of the array as it is now and calls it; await compensate()
\* begins.
CompensateStarts ==
    /\ pc = "unwinding"
    /\ idx <= Len(compensations)
    /\ log' = Append(log, EntryCall(compensations[idx]))
    /\ pc' = "compensating"
    /\ unwinds' = Append(unwinds, Unwind(compensations[idx].step, self, Len(frames)))
    /\ UNCHANGED <<idx, result, compensations, calls, stepFailed,
                   compensationData, outcome, thrown, raisedBy, catches,
                   registryVars, classification, origin, self, suspended,
                   frames, caller, owner, containerLog>>

\* Variant: the loop passes over an entry after each compensation that ended.
CompensateEndsSkipping(ok) ==
    /\ pc = "compensating"
    /\ log' = Append(log, Event(IF ok THEN "compensated" ELSE "compensateThrew",
                                compensations[idx].step, Undefined, <<>>))
    /\ IF ok
       THEN /\ idx' = idx + 2
            /\ pc' = "unwinding"
            /\ UNCHANGED result
       ELSE /\ pc' = "failed"
            /\ result' = CompensationError
            /\ UNCHANGED idx
    /\ UNCHANGED <<compensations, calls, stepFailed, compensationData, outcome,
                   thrown, raisedBy, catches, registryVars, classification,
                   origin, self, suspended, frames, caller, owner, unwinds,
                   containerLog>>

\* await compensate() ends: the compensation action completed, or raised.
CompensateEnds(ok) ==
    /\ pc = "compensating"
    /\ log' = Append(log, Event(IF ok THEN "compensated" ELSE "compensateThrew",
                                compensations[idx].step, Undefined, <<>>))
    /\ IF ok
       THEN /\ idx' = idx + 1
            /\ pc' = "unwinding"
            /\ UNCHANGED result
       ELSE /\ pc' = "failed"
            /\ result' = CompensationError
            /\ UNCHANGED idx
    /\ UNCHANGED <<compensations, calls, stepFailed, compensationData, outcome,
                   thrown, raisedBy, catches, registryVars, classification,
                   origin, self, suspended, frames, caller, owner, unwinds,
                   containerLog>>

\* ------------------------------------------------- createSagaVirtualObject
\* The handlers of a saga virtual object: the ones given as `handlers`
\* (exclusive) and the ones given as `sharedHandlers`.
HandlerKinds == {"exclusive", "shared"}

\* A call of a handler of the object by Restate.
HandlerCall(kind, invocation) == [ev |-> kind, inv |-> invocation]

\* The kind of the handler an invocation called.
HandlerKind(invocation) == containerLog[invocation].ev

\* Variant: the shared handlers are wrapped like the exclusive ones.
WrappedAll(kind) == TRUE

\* for (const [handlerName, handler] of Object.entries(handlers)): the
\* handlers wrapped with a saga and the try/catch; the shared ones are handed
\* to restate.handlers.object.shared as they are.
Wrapped(kind) == kind = "exclusive"

\* The first call of a handler of the object.
objectHandler(kind) ==
    /\ Invoke
    /\ containerLog' = Append(containerLog, HandlerCall(kind, self))

\* A further call of a handler of the object, while the one before is in a
\* forward action or when it is over.
objectHandlerAgain(kind) ==
    /\ pc \in {"inStep", "succeeded", "raised", "failed"}
    /\ Start(pc, 0)
    /\ containerLog' = Append(containerLog, HandlerCall(kind, Len(suspended) + 1))

\* The error of a handler that is not wrapped goes to Restate as it is.
PassThrough ==
    /\ pc = "thrown"
    /\ ~Wrapped(HandlerKind(self))
    /\ pc' = "raised"
    /\ result' = thrown
    /\ UNCHANGED <<compensations, calls, stepFailed, compensationData, outcome,
                   thrown, raisedBy, idx, log, catches, registryVars,
                   classification, origin, compositionVars>>

\* ---------------------------------------------------------- scoped factory
\* The scopes createScope returns, one per call.
Scopes == <<"scope1", "scope2", "scope3", "scope4", "scope5", "scope6",
            "scope7", "scope8">>

\* The container the factory is given: scopes are created from it.
RootContainer == "rootContainer"

IsScopeCreate(e) == e.ev = "scope:create"
IsScopeDispose(e) == e.ev = "scope:dispose"

\* Variant: a scope is created for every handler call, embedded ones too.
ScopePerHandler(frame) == TRUE

\* createScope is called by run, for the handler of a top-level invocation.
CreatesScope(frame) == frame = 0

\* What calling a handler of a scoped workflow adds to containerLog: the
\* scope created, if one is, and the saga the handler is given.
ScopedHandler(invocation, frame, parentSaga) ==
    IF CreatesScope(frame)
    THEN LET scope == Scopes[Len(SelectSeq(containerLog, IsScopeCreate)) + 1]
         IN <<ContainerEvent("scope:create", invocation, frame, RootContainer,
                             Extension(scope), NoError),
              ContainerEvent("handler", invocation, frame, RootContainer,
                             Extension(scope), NoError)>>
    ELSE <<ContainerEvent("handler", invocation, frame, RootContainer,
                          parentSaga, NoError)>>

\* run of a workflow made by the factory, for the first invocation.
scopedRun ==
    /\ Invoke
    /\ containerLog' = containerLog \o ScopedHandler(self, 0, Extension(RootContainer))

\* Variant: the handler counts as settled as soon as its error reached the
\* runner, before the unwind.
SettledBeforeUnwind == pc \in {"succeeded", "unwinding", "failed"}

\* The handler settled: it returned, or the runner rethrew after the unwind.
Settled == pc \in {"succeeded", "failed"}

\* The disposal policy was invoked for the invocation.
Disposals(invocation) ==
    Len(SelectSeq(containerLog,
                  LAMBDA e : IsScopeDispose(e) /\ e.inv = invocation))

\* run of a workflow made by the factory, for a further invocation: the one
\* before it is in progress, in a forward action, or over.
scopedRunAgain ==
    /\ pc = "inStep" \/ (Settled /\ Disposals(self) = 1)
    /\ Start(pc, 0)
    /\ containerLog' = containerLog \o
           ScopedHandler(Len(suspended) + 1, 0, Extension(RootContainer))

\* runAsStep of a workflow made by the factory.
scopedRunAsStep ==
    /\ runAsStep
    /\ containerLog' = containerLog \o
           ScopedHandler(self, Embeds + 1, GivenSaga(self, CurrentFrame.id))

\* Variant: the policy is not told of the failure.
DisposalErrorNone == NoError

\* The failure the disposal policy receives, if any.
DisposalError == IF pc = "failed" THEN result ELSE NoError

\* disposeScope(scope, error): the policy is invoked once the handler settled.
disposeScope ==
    /\ Settled
    /\ Disposals(self) = 0
    /\ containerLog' = Append(containerLog,
           ContainerEvent("scope:dispose", self, 0, RootContainer,
                          GivenSaga(self, 0), DisposalError))
    /\ UNCHANGED <<pc, compensations, calls, stepFailed, compensationData,
                   outcome, thrown, raisedBy, idx, result, log, catches,
                   registryVars, classification, origin, self, suspended,
                   frames, caller, owner, unwinds>>

\* ------------------------------------------- error-registry.ts: operations
\* registerTerminalErrors(errorClasses)
registerTerminalErrors(errorClasses) ==
    /\ terminalErrorClasses' = terminalErrorClasses \cup errorClasses
    /\ UNCHANGED <<invocationVars, globalMapper, classification>>

\* Variant: delete applied to the first class registered only.
unregisterFirstOnly(errorClasses) ==
    /\ terminalErrorClasses' = terminalErrorClasses \ (errorClasses \cap {"ValidationError"})
    /\ UNCHANGED <<invocationVars, globalMapper, classification>>

\* unregisterTerminalErrors(errorClasses)
unregisterTerminalErrors(errorClasses) ==
    /\ terminalErrorClasses' = terminalErrorClasses \ errorClasses
    /\ UNCHANGED <<invocationVars, globalMapper, classification>>

\* clearTerminalErrors()
clearTerminalErrors ==
    /\ terminalErrorClasses' = {}
    /\ UNCHANGED <<invocationVars, globalMapper, classification>>

\* setGlobalErrorMapper(mapper)
setGlobalErrorMapper(mapper) ==
    /\ globalMapper' = mapper
    /\ UNCHANGED <<invocationVars, terminalErrorClasses, classification,
                   operations>>

\* A call resolveTerminalError(err, stepMapper) under the registry as it is.
Classify(err, stepMapper) ==
    /\ classification' = Classification(err, stepMapper)
    /\ UNCHANGED <<invocationVars, registryVars>>

\* ---------------------------------------------------------- specification
Init ==
    /\ pc = "idle"
    /\ compensations = <<>>
    /\ calls = <<>>
    /\ stepFailed = <<>>
    /\ compensationData = <<>>
    /\ outcome = <<>>
    /\ thrown = NoError
    /\ raisedBy = 0
    /\ catches = 0
    /\ idx = 0
    /\ result = NoError
    /\ log = <<>>
    /\ terminalErrorClasses = {}
    /\ globalMapper = Null
    /\ classification = NoClassification
    /\ origin = NoOrigin
    /\ self = 1
    /\ suspended = <<EmptyContext("executing")>>
    /\ frames = <<>>
    /\ caller = 0
    /\ owner = <<>>
    /\ unwinds = <<>>
    /\ operations = <<>>
    /\ containerLog = <<>>

Next ==
    \/ Invoke /\ UNCHANGED containerLog
    \/ \E mode \in {"hybrid", "strict"}, compensate \in BOOLEAN :
          StepCall(mode, compensate)
    \/ \E response \in Responses : StepReturns(response)
    \/ \E err \in ThrownErrors, stepMapper \in StepMappers : StepThrows(err, stepMapper)
    \/ \E err \in ThrownErrors : HandlerThrows(err)
    \/ HandlerCatches
    \/ HandlerReturns
    \/ RunnerCatches
    \/ \E ok \in BOOLEAN : Compensate(ok)
    \/ Rethrow

Spec == Init /\ [][Next]_vars

\* One invocation whose handler embeds other handlers.
NextEmbedded ==
    \/ Invoke /\ UNCHANGED containerLog
    \/ \E mode \in {"hybrid", "strict"}, compensate \in BOOLEAN :
          StepCall(mode, compensate)
    \/ \E response \in {StepResponse("cd1"), permanentFailure("capture failed", "cd1")} :
          StepReturns(response)
    \/ StepThrows(NetworkError, "none")
    \/ runAsStep /\ UNCHANGED containerLog
    \/ EmbeddedReturns
    \/ EmbeddedRaises
    \/ HandlerCatches
    \/ HandlerReturns
    \/ RunnerCatches
    \/ \E ok \in BOOLEAN : Compensate(ok)
    \/ Rethrow

SpecEmbedded == Init /\ [][NextEmbedded]_vars

\* One invocation of a container workflow whose handler embeds container
\* workflows created with the same or with another container.
NextContainer ==
    \/ \E workflow \in Workflows : containerRun(workflow)
    \/ \E mode \in {"hybrid", "strict"} : StepCall(mode, TRUE)
    \/ \E response \in {StepResponse("cd1"), permanentFailure("capture failed", "cd1")} :
          StepReturns(response)
    \/ \E workflow \in Workflows : containerRunAsStep(workflow)
    \/ EmbeddedReturns
    \/ EmbeddedRaises
    \/ HandlerReturns
    \/ RunnerCatches
    \/ \E ok \in BOOLEAN : Compensate(ok)
    \/ Rethrow

SpecContainer == Init /\ [][NextContainer]_vars

\* Invocations of workflows made by the scoped factory, whose handlers embed
\* other workflows of the factory.
NextScoped ==
    \/ scopedRun
    \/ scopedRunAgain
    \/ StepCall("hybrid", TRUE)
    \/ \E response \in {StepResponse("cd1"), permanentFailure("capture failed", "cd1")} :
          StepReturns(response)
    \/ scopedRunAsStep
    \/ EmbeddedReturns
    \/ EmbeddedRaises
    \/ HandlerReturns
    \/ RunnerCatches
    \/ \E ok \in BOOLEAN : Compensate(ok)
    \/ Rethrow
    \/ disposeScope

\* The disposal follows the settling of the handler in the same run.
SpecScoped == Init /\ [][NextScoped]_vars /\ WF_vars(disposeScope)

\* Several invocations: concurrent ones, and ones started by a client call.
NextInvocations ==
    \/ Invoke /\ UNCHANGED containerLog
    \/ InvokeConcurrently /\ UNCHANGED containerLog
    \/ workflowClientCall /\ UNCHANGED containerLog
    \/ ClientCallReturns
    \/ \E j \in 1..MaxInvocations : Switch(j)
    \/ \E mode \in {"hybrid", "strict"} : StepCall(mode, TRUE)
    \/ StepReturns(StepResponse("cd1"))
    \/ /\ pc = "inStep"
       /\ calls[CurrentCall].mode = "hybrid"
       /\ StepReturns(permanentFailure("capture failed", "cd1"))
    \/ HandlerReturns
    \/ RunnerCatches
    \/ Compensate(TRUE)
    \/ Rethrow

SpecInvocations == Init /\ [][NextInvocations]_vars

\* One invocation and the attempts Restate makes of it.
NextAttempts ==
    \/ Invoke /\ UNCHANGED containerLog
    \/ \E mode \in {"hybrid", "strict"}, compensate \in BOOLEAN :
          StepCall(mode, compensate)
    \/ \E response \in {StepResponse("cd1"), permanentFailure("capture failed", "cd1")} :
          StepReturns(response)
    \/ StepThrows(NetworkError, "none")
    \/ \E err \in ThrownErrors : HandlerThrows(err)
    \/ HandlerCatches
    \/ HandlerReturns
    \/ RunnerCatches
    \/ \E ok \in BOOLEAN : Compensate(ok)
    \/ Rethrow
    \/ Reinvoke

SpecAttempts == Init /\ [][NextAttempts]_vars

\* One invocation whose handler starts steps and awaits them together.
NextFanOut ==
    \/ Invoke /\ UNCHANGED containerLog
    \/ \E mode \in {"hybrid", "strict"}, compensate \in BOOLEAN :
          StepStarts(mode, compensate)
    \/ \E k \in 1..MaxSteps :
          \E response \in {StepResponse("cd1"), permanentFailure("capture failed", "cd1")} :
             StepSettles(k, response)
    \/ /\ \A k \in 1..Len(calls) : outcome[k].kind # "pending"
       /\ HandlerReturns
    \/ RunnerCatches
    \/ CompensateStarts
    \/ \E ok \in BOOLEAN : CompensateEnds(ok)
    \/ Rethrow

SpecFanOut == Init /\ [][NextFanOut]_vars

\* The same, where the runner goes on whenever it can and every compensation
\* action called comes to an end.
SpecFanOutFair ==
    /\ Init
    /\ [][NextFanOut]_vars
    /\ WF_vars(RunnerCatches)
    /\ WF_vars(CompensateStarts)
    /\ WF_vars(\E ok \in BOOLEAN : CompensateEnds(ok))
    /\ WF_vars(Rethrow)

\* The registry and the classifier alone: configuration calls in any order,
\* and calls of resolveTerminalError.
NextRegistry ==
    \/ \E errorClasses \in SUBSET ErrorClasses :
          registerTerminalErrors(errorClasses) /\ UNCHANGED operations
    \/ \E errorClasses \in SUBSET ErrorClasses :
          unregisterTerminalErrors(errorClasses) /\ UNCHANGED operations
    \/ clearTerminalErrors /\ UNCHANGED operations
    \/ \E mapper \in GlobalMappers \cup {Null} : setGlobalErrorMapper(mapper)
    \/ \E err \in ClassifiedErrors, stepMapper \in StepMappers : Classify(err, stepMapper)

SpecRegistry == Init /\ [][NextRegistry]_vars

\* A call of a registry operation, as the caller wrote it.
Operation(op, errorClasses) == [op |-> op, classes |-> errorClasses]

\* The call is recorded.
Recorded(operation) ==
    /\ Len(operations) < MaxOps
    /\ operations' = Append(operations, operation)

\* The arrays of classes passed to register and unregister.
ClassArrays == (SUBSET ErrorClasses) \ {{}}

\* The life of the registry: register, unregister and clear calls in any
\* order, recorded, and the class check made in between.
NextLifecycle ==
    \/ \E errorClasses \in ClassArrays :
          /\ registerTerminalErrors(errorClasses)
          /\ Recorded(Operation("register", errorClasses))
    \/ \E errorClasses \in ClassArrays :
          /\ unregisterTerminalErrors(errorClasses)
          /\ Recorded(Operation("unregister", errorClasses))
    \/ clearTerminalErrors /\ Recorded(Operation("clear", {}))
    \/ \E err \in ClassifiedErrors : Classify(err, "none")

SpecLifecycle == Init /\ [][NextLifecycle]_vars

\* The classifier called with every kind of thrown value and of step-level
\* mapper, one that maps every value included, under any registry.
NextClassifier ==
    \/ \E errorClasses \in ClassArrays :
          registerTerminalErrors(errorClasses) /\ UNCHANGED operations
    \/ clearTerminalErrors /\ UNCHANGED operations
    \/ \E mapper \in GlobalMappers \cup {Null} : setGlobalErrorMapper(mapper)
    \/ \E err \in ClassifiedErrors, stepMapper \in StepMappers \cup {"mapAny"} :
          Classify(err, stepMapper)

SpecClassifier == Init /\ [][NextClassifier]_vars

\* A saga virtual object: calls of its exclusive and shared handlers.  Only a
\* wrapped handler is given a saga, so only it can call steps.
NextObject ==
    \/ \E kind \in HandlerKinds : objectHandler(kind)
    \/ \E kind \in HandlerKinds : objectHandlerAgain(kind)
    \/ \E mode \in {"hybrid", "strict"} :
          StepCall(mode, TRUE) /\ Wrapped(HandlerKind(self))
    \/ \E response \in {StepResponse("cd1"), permanentFailure("capture failed", "cd1")} :
          StepReturns(response)
    \/ \E err \in {NetworkError, TerminalError("fatal")} : HandlerThrows(err)
    \/ HandlerReturns
    \/ RunnerCatches /\ Wrapped(HandlerKind(self))
    \/ PassThrough
    \/ \E ok \in BOOLEAN : Compensate(ok)
    \/ Rethrow

SpecObject == Init /\ [][NextObject]_vars

\* A call of a registry operation made by the handler of an invocation.
OperationBy(invocation, op, errorClasses) ==
    [op |-> op, classes |-> errorClasses, by |-> invocation]

\* Several invocations in one process: the handler of each configures the
\* registry between its steps, and its steps classify what they throw.
NextShared ==
    \/ Invoke /\ UNCHANGED containerLog
    \/ InvokeConcurrently /\ UNCHANGED containerLog
    \/ /\ pc = "running"
       /\ registerTerminalErrors({"ValidationError"})
       /\ Recorded(OperationBy(self, "register", {"ValidationError"}))
    \/ /\ pc = "running"
       /\ unregisterTerminalErrors({"ValidationError"})
       /\ Recorded(OperationBy(self, "unregister", {"ValidationError"}))
    \/ /\ pc = "running"
       /\ clearTerminalErrors
       /\ Recorded(OperationBy(self, "clear", {}))
    \/ \E mapper \in {"mapNetwork", Null} :
          /\ pc = "running"
          /\ setGlobalErrorMapper(mapper)
    \/ StepCall("hybrid", TRUE)
    \/ StepReturns(StepResponse("cd1"))
    \/ \E err \in {ValidationError, NetworkError} : StepThrows(err, "none")
    \/ HandlerCatches
    \/ RunnerCatches

SpecShared == Init /\ [][NextShared]_vars

\* The registry configured when the process starts, then one invocation whose
\* steps and handler code throw.
NextConfigured ==
    \/ /\ pc = "idle"
       /\ \E errorClasses \in ClassArrays : registerTerminalErrors(errorClasses)
       /\ UNCHANGED operations
    \/ /\ pc = "idle"
       /\ \E mapper \in GlobalMappers \cup {Null} : setGlobalErrorMapper(mapper)
    \/ Invoke /\ UNCHANGED containerLog
    \/ \E mode \in {"hybrid", "strict"} : StepCall(mode, TRUE)
    \/ StepReturns(StepResponse("cd1"))
    \/ \E err \in ThrownErrors : StepThrows(err, "none")
    \/ \E err \in ClassifiedErrors : HandlerThrows(err)
    \/ HandlerReturns
    \/ RunnerCatches
    \/ Compensate(TRUE)
    \/ Rethrow

SpecConfigured == Init /\ [][NextConfigured]_vars

\* ------------------------------------------------------ reading the log
IsPush(e) == e.ev = "push"
IsCompensate(e) == e.ev = "compensate"
IsCompensateThrew(e) == e.ev = "compensateThrew"

StepsOf(events) == [i \in 1..Len(events) |-> events[i].step]

\* The step calls whose entry was pushed, in push order.
PushedSteps == StepsOf(SelectSeq(log, IsPush))
\* The calls of compensate functions, in call order.
CompensateCalls == SelectSeq(log, IsCompensate)
InvokedSteps == StepsOf(CompensateCalls)
\* A compensation action raised during the unwind.
CompensationRaised == SelectSeq(log, IsCompensateThrew) # <<>>

IsPrefix(s, t) == Len(s) <= Len(t) /\ SubSeq(t, 1, Len(s)) = s

Unwound == pc \in {"unwinding", "failed"}
\* The loop over the stack ran to its end.
UnwindComplete == pc = "failed" /\ ~CompensationRaised

IsHybridWithCompensation(k) == calls[k].mode = "hybrid" /\ calls[k].compensate
FailedTerminally(k) == outcome[k].kind \in {"permanentFailure", "threwTerminal"}

\* ----------------------------------------------------------------- claims

\* C1: once a terminal error escaped the handler, the compensations invoked
\* so far are, in order, the entries pushed taken from the last pushed to the
\* first; when the loop has ended all of them were invoked, in that order.
\* Steps that registered no compensation do not appear.
C1_ReverseOrder ==
    Unwound =>
        /\ IsPrefix(InvokedSteps, Reverse(PushedSteps))
        /\ UnwindComplete => InvokedSteps = Reverse(PushedSteps)

C1_Witness ==
    /\ UnwindComplete
    /\ Len(InvokedSteps) >= 2
    /\ \E k \in 1..Len(calls) : ~calls[k].compensate

\* C2: an invocation whose handler returned normally invoked no
\* compensation, whatever the number of steps it ran and of entries pushed.
C2_NoCompensationOnSuccess ==
    result = Returned => CompensateCalls = <<>>

C2_Witness ==
    /\ pc = "succeeded"
    /\ result = Returned
    /\ Len(compensations) >= 2

\* C3 as stated: an invocation that unwound always ends by raising the
\* error that escaped the handler, every entry having been invoked.
C3_Original ==
    pc = "failed" =>
        /\ result = thrown
        /\ Len(CompensateCalls) = Len(compensations)

\* C3 amended: when no compensation action raised during the unwind, the
\* invocation ends by raising the terminal error that escaped the handler,
\* and every entry of the stack has been invoked by then.
C3_RethrowAfterUnwind ==
    (pc = "failed" /\ ~CompensationRaised) =>
        /\ result = thrown
        /\ IsTerminalError(result)
        /\ Len(CompensateCalls) = Len(compensations)
        /\ \A i \in 1..Len(compensations) :
              CompensateCalls[i].step = compensations[i].step

C3_Witness ==
    /\ pc = "failed"
    /\ ~CompensationRaised
    /\ result = TerminalError("capture failed")
    /\ Len(CompensateCalls) >= 2

\* C4: when the error that escaped the handler is not a TerminalError, no
\* compensation is invoked, the stack still holds the pushed entries in push
\* order, and the invocation raises that error.
C4_NonTerminalNoUnwind ==
    /\ (thrown # NoError /\ ~IsTerminalError(thrown)) =>
          /\ pc \in {"thrown", "raised"}
          /\ CompensateCalls = <<>>
          /\ StepsOf(compensations) = PushedSteps
    /\ pc = "raised" => (result = thrown /\ ~IsTerminalError(thrown))

C4_Witness ==
    /\ pc = "raised"
    /\ result = NetworkError
    /\ Len(compensations) >= 2

\* C5: the entry of a hybrid step with a compensation is pushed before its
\* forward action starts; when the terminal failure of that step escapes the
\* handler, its entry is the first of the unwind and its compensation is the
\* first one invoked.
C5_HybridRegistersFirst ==
    /\ \A j \in 1..Len(log) :
          (log[j].ev = "run" /\ IsHybridWithCompensation(log[j].step)) =>
              \E i \in 1..(j - 1) : log[i].ev = "push" /\ log[i].step = log[j].step
    /\ \A k \in 1..Len(calls) :
          (Unwound /\ raisedBy = k /\ IsHybridWithCompensation(k)) =>
              /\ compensations[1].step = k
              /\ (idx > 1 \/ pc = "failed") => InvokedSteps[1] = k

C5_Witness ==
    /\ pc = "failed"
    /\ raisedBy = 2
    /\ IsHybridWithCompensation(2)
    /\ FailedTerminally(2)
    /\ Len(InvokedSteps) >= 2

\* C6: a strict step whose forward action failed has pushed no entry, so no
\* entry of the stack is its own and its compensation is never invoked; when
\* its error escapes, the entries pushed before are invoked from the last
\* pushed to the first.
C6_StrictFailureRegistersNothing ==
    \A k \in 1..Len(calls) :
        (calls[k].mode = "strict" /\ outcome[k].kind \notin {"pending", "success"}) =>
            /\ \A i \in 1..Len(PushedSteps) : PushedSteps[i] # k
            /\ \A i \in 1..Len(compensations) : compensations[i].step # k
            /\ \A i \in 1..Len(InvokedSteps) : InvokedSteps[i] # k
            /\ (Unwound /\ raisedBy = k) =>
                  /\ IsPrefix(InvokedSteps, Reverse(PushedSteps))
                  /\ \A i \in 1..Len(PushedSteps) : PushedSteps[i] < k
                  /\ UnwindComplete => Len(InvokedSteps) = Len(PushedSteps)

C6_Witness ==
    /\ UnwindComplete
    /\ raisedBy = 3
    /\ calls[3].mode = "strict" /\ calls[3].compensate
    /\ FailedTerminally(3)
    /\ InvokedSteps = <<2, 1>>

\* C7: the compensation of a hybrid step whose forward action threw an error
\* classified terminal, returning no response, is called with the input of
\* that step call as data; it is called when that error escapes the handler.
C7_ThrowFallsBackToInput ==
    /\ \A i \in 1..Len(CompensateCalls) :
          LET c == CompensateCalls[i]
          IN (calls[c.step].mode = "hybrid" /\ outcome[c.step].kind = "threwTerminal")
                 => c.data = calls[c.step].input
    /\ \A k \in 1..Len(calls) :
          (pc = "failed" /\ raisedBy = k /\ IsHybridWithCompensation(k)
              /\ outcome[k].kind = "threwTerminal")
                 => \E i \in 1..Len(InvokedSteps) : InvokedSteps[i] = k

C7_Witness ==
    /\ \E i \in 1..Len(CompensateCalls) :
          /\ CompensateCalls[i].step = 2
          /\ CompensateCalls[i].data = InputOf(2)
    /\ Len(calls) >= 2
    /\ outcome[2].kind = "threwTerminal"
    /\ thrown = TerminalError("step: validation")

\* C8 as stated: the compensation of a hybrid step whose forward action
\* returned permanentFailure(message, data) is called with that data and
\* with failed = true, after the step raised a terminal error.
C8_Original ==
    \A i \in 1..Len(CompensateCalls) :
        LET c == CompensateCalls[i]
        IN (calls[c.step].mode = "hybrid" /\ outcome[c.step].kind = "permanentFailure")
               => /\ c.data = outcome[c.step].data
                  /\ c.context = <<[failed |-> TRUE]>>

\* C9 as stated: the data passed to the compensation of a hybrid step is the
\* compensationData of the response whenever the forward action returned
\* one, whatever its value; it is the input only when the action threw.
C9_Original ==
    \A i \in 1..Len(CompensateCalls) :
        LET c == CompensateCalls[i]
        IN calls[c.step].mode = "hybrid" =>
              c.data = IF outcome[c.step].kind \in {"success", "permanentFailure"}
                       THEN outcome[c.step].data
                       ELSE calls[c.step].input

\* C10: the failed flag passed to the compensation of a hybrid step is false
\* exactly when the forward action of that step call returned a success
\* response, and true when it threw or returned a permanent failure.
C10_FailedFlag ==
    \A i \in 1..Len(CompensateCalls) :
        LET c == CompensateCalls[i]
        IN calls[c.step].mode = "hybrid" =>
              c.context = <<[failed |-> outcome[c.step].kind # "success"]>>

C10_Witness ==
    /\ Len(CompensateCalls) >= 3
    /\ \E i, j, l \in 1..Len(CompensateCalls) :
          /\ CompensateCalls[i].context = <<[failed |-> FALSE]>>
          /\ CompensateCalls[j].context = <<[failed |-> TRUE]>>
          /\ outcome[CompensateCalls[j].step].kind = "permanentFailure"
          /\ CompensateCalls[l].context = <<[failed |-> TRUE]>>
          /\ outcome[CompensateCalls[l].step].kind \in {"threw", "threwTerminal"}

\* The step calls that register, in call order: a hybrid step with a
\* compensation once called, a strict step with a compensation once its
\* forward action returned a success response.
RECURSIVE RegisteringCalls(_)
RegisteringCalls(n) ==
    IF n = 0 THEN <<>>
    ELSE IF calls[n].compensate
            /\ (calls[n].mode = "hybrid" \/ outcome[n].kind = "success")
         THEN Append(RegisteringCalls(n - 1), n)
         ELSE RegisteringCalls(n - 1)

Occurrences(seq, x) == Cardinality({i \in 1..Len(seq) : seq[i] = x})

\* C11: a strict step with a compensation has no entry while its forward
\* action runs and exactly one once that action returned a success response;
\* the compensation of that entry is called with the compensationData of the
\* response, whatever it is, and never with the input in its place.
C11_StrictRegistersAfterSuccess ==
    \A k \in 1..Len(calls) :
        (calls[k].mode = "strict" /\ calls[k].compensate) =>
            /\ outcome[k].kind = "pending" => Occurrences(PushedSteps, k) = 0
            /\ outcome[k].kind = "success" =>
                  /\ Occurrences(PushedSteps, k) = 1
                  /\ Occurrences(StepsOf(compensations), k) = 1
            /\ \A i \in 1..Len(CompensateCalls) :
                  CompensateCalls[i].step = k =>
                      /\ outcome[k].kind = "success"
                      /\ CompensateCalls[i].data = outcome[k].data

C11_Witness ==
    /\ Len(calls) >= 2
    /\ calls[1].mode = "strict" /\ calls[1].compensate
    /\ outcome[1] = Outcome("success", Undefined)
    /\ \E i \in 1..Len(CompensateCalls) :
          CompensateCalls[i].step = 1 /\ CompensateCalls[i].data = Undefined

\* C12: a step without a compensation never has an entry, whatever its mode
\* and whatever its forward action did; the entries pushed are those of the
\* steps that register, in call order, as if the other steps were absent,
\* and no compensation call is made for a step without a compensation.
C12_NoCompensationNoEntry ==
    /\ \A k \in 1..Len(calls) :
          ~calls[k].compensate =>
              /\ Occurrences(PushedSteps, k) = 0
              /\ Occurrences(StepsOf(compensations), k) = 0
              /\ Occurrences(InvokedSteps, k) = 0
    /\ PushedSteps = RegisteringCalls(Len(calls))
    /\ Unwound => IsPrefix(InvokedSteps, Reverse(RegisteringCalls(Len(calls))))

C12_Witness ==
    /\ UnwindComplete
    /\ Len(calls) = 3
    /\ ~calls[2].compensate
    /\ calls[2].mode = "hybrid"
    /\ outcome[2].kind = "permanentFailure"
    /\ InvokedSteps = <<3, 1>>

\* --------------------------------------------------------------- registry
RECURSIVE Replay(_)
\* The recorded operations applied in order to the empty set as set insert,
\* set remove and set empty.
Replay(ops) ==
    IF ops = <<>> THEN {}
    ELSE LET before == Replay(SubSeq(ops, 1, Len(ops) - 1))
             last == ops[Len(ops)]
         IN CASE last.op = "register" -> before \cup last.classes
              [] last.op = "unregister" -> before \ last.classes
              [] OTHER -> {}

\* C21: whatever register, unregister and clear calls were made, the class
\* check classifies an error as terminal iff the error is an instance of a
\* class of the set those calls give when applied in order as insert, remove
\* and empty; a recorded call of the classifier agrees with the set it met.
C21_RegistryIsASet ==
    /\ \A err \in ClassifiedErrors :
          checkGlobalTerminalError(err) # NoError
              <=> \E errorClass \in Replay(operations) : InstanceOf(err, errorClass)
    /\ classification # NoClassification =>
          (classification.result # NoError
              <=> \E errorClass \in classification.classes :
                     InstanceOf(classification.err, errorClass))

C21_Witness ==
    /\ operations = <<Operation("register", {"ValidationError"}),
                      Operation("register", {"ValidationError"}),
                      Operation("unregister", {"ValidationError"})>>
    /\ classification.err = ValidationError
    /\ classification.classes = {}
    /\ classification.result = NoError

\* ------------------------------------------------------------ composition
\* Step call k was made by an embedded handler.
IsEmbeddedCall(k) == Len(owner[k].path) > 1

\* Step call c was made by a handler embedded, directly or through other
\* embedded handlers, by the handler that made step call p.
EmbeddedBelow(p, c) ==
    /\ owner[p].inv = owner[c].inv
    /\ Len(owner[p].path) < Len(owner[c].path)
    /\ IsPrefix(owner[p].path, owner[c].path)

Registered(k) == Occurrences(PushedSteps, k) > 0

\* C13: an embedded invocation runs against the saga context of its caller
\* and no other context comes to exist; a step called by an embedded handler
\* is called with the invocation's own context, and the stack of that
\* context holds every entry pushed, embedded or not, in push order (in the
\* reverse order once the runner reversed it).
C13_EmbeddedUsesCallerContext ==
    /\ Len(suspended) = 1
    /\ \A i \in 1..Len(frames) : frames[i].saga = self
    /\ \A k \in 1..Len(calls) :
          IsEmbeddedCall(k) =>
              /\ owner[k].saga = owner[k].inv
              /\ Occurrences(StepsOf(compensations), k) = Occurrences(PushedSteps, k)
    /\ StepsOf(compensations) =
          IF Unwound THEN Reverse(PushedSteps) ELSE PushedSteps

C13_Witness ==
    /\ pc = "inStep"
    /\ Len(calls) = 3
    /\ owner[1].path = <<0>>
    /\ owner[2].path = <<0, 1, 2>>
    /\ calls[2].mode = "strict"
    /\ owner[3].path = <<0, 1>>
    /\ StepsOf(compensations) = <<1, 2, 3>>

\* C14: when step call c was made by a handler embedded below the handler
\* that had made step call p before, and both registered a compensation, the
\* compensation of p is invoked only after that of c was; when the loop has
\* ended both were invoked.
C14_ChildBeforeParent ==
    \A p, c \in 1..Len(calls) :
        (p < c /\ EmbeddedBelow(p, c) /\ Registered(p) /\ Registered(c)) =>
            /\ \A i \in 1..Len(InvokedSteps) :
                  InvokedSteps[i] = p =>
                      \E j \in 1..(i - 1) : InvokedSteps[j] = c
            /\ UnwindComplete =>
                  /\ Occurrences(InvokedSteps, c) = 1
                  /\ Occurrences(InvokedSteps, p) = 1

C14_Witness ==
    /\ UnwindComplete
    /\ Len(calls) = 3
    /\ owner[1].path = <<0>>
    /\ owner[2].path = <<0, 1, 2>>
    /\ outcome[2].kind = "success"
    /\ owner[3].path = <<0>>
    /\ outcome[3].kind = "permanentFailure"
    /\ calls[3].mode = "hybrid"
    /\ InvokedSteps = <<3, 2, 1>>

\* C15: every compensation is invoked by the runner, after the error has
\* left every embedded handler, and none while an embedded handler is in
\* progress; the error the runner ends with is the one that travelled up; no
\* entry is invoked twice, and each is invoked once when the loop has ended.
C15_OnlyOutermostUnwinds ==
    /\ \A i \in 1..Len(unwinds) : unwinds[i].depth = 1
    /\ Unwound => Len(frames) = 1
    /\ UnwindComplete => result = thrown
    /\ \A k \in 1..Len(calls) :
          /\ Occurrences(InvokedSteps, k) <= 1
          /\ (UnwindComplete /\ Registered(k)) => Occurrences(InvokedSteps, k) = 1

C15_Witness ==
    /\ UnwindComplete
    /\ Len(calls) = 3
    /\ owner[1].path = <<0>>
    /\ owner[2].path = <<0, 1>>
    /\ owner[3].path = <<0, 1, 2>>
    /\ raisedBy = 3
    /\ result = TerminalError("capture failed")
    /\ unwinds = <<Unwind(3, 1, 1), Unwind(2, 1, 1), Unwind(1, 1, 1)>>

\* The invocations started so far.
Invocations == 1..Len(suspended)

\* C16: the stack of an invocation holds the entries of its own step calls
\* and all of them; a step is called with the context of the invocation that
\* calls it; a compensation is invoked by the runner of the invocation whose
\* step registered it.  This for invocations in progress at the same time
\* and for one called by another through a client.
C16_StacksAreSeparate ==
    /\ \A i \in Invocations :
          \A n \in 1..Len(StackOf(i)) : owner[StackOf(i)[n].step].inv = i
    /\ \A k \in 1..Len(calls) :
          /\ owner[k].saga = owner[k].inv
          /\ Registered(k) => Occurrences(StepsOf(StackOf(owner[k].inv)), k) = 1
    /\ \A u \in 1..Len(unwinds) : owner[unwinds[u].step].inv = unwinds[u].inv

C16_Witness ==
    /\ self = 1
    /\ pc = "failed"
    /\ Len(suspended) = 3
    /\ Len(calls) = 3
    /\ owner[1].inv = 1
    /\ owner[2].inv = 2
    /\ owner[3].inv = 3
    /\ suspended[3].caller = 1
    /\ suspended[2].caller = 0
    /\ StepsOf(suspended[2].compensations) = <<2>>
    /\ unwinds = <<Unwind(3, 3, 1), Unwind(1, 1, 1)>>

\* -------------------------------------------------------------- container
IsHandler(e) == e.ev = "handler"

\* C22: an embedded container workflow's handler is called with the services
\* and the container of the handler that embeds it, hence of the top-level
\* workflow, whatever container the embedded workflow was created with; so
\* are the forward and compensation actions of the steps it calls.
C22_EmbeddedSeesParentServices ==
    /\ \A i \in 1..Len(containerLog) :
          LET h == containerLog[i]
          IN (IsHandler(h) /\ h.frame # 0) =>
                /\ h.saga = GivenSaga(h.inv, 0)
                /\ h.own # GivenSaga(h.inv, 0).container =>
                      /\ h.saga.container # h.own
                      /\ h.saga.services # Extension(h.own).services
    /\ \A k \in 1..Len(calls) :
          IsEmbeddedCall(k) => SagaSeen(k) = GivenSaga(owner[k].inv, 0)

C22_Witness ==
    /\ UnwindComplete
    /\ Len(calls) = 2
    /\ owner[1].path = <<0, 1, 2>>
    /\ GivenSaga(1, 0) = Extension("orderContainer")
    /\ \E i \in 1..Len(containerLog) :
          /\ containerLog[i].frame = 2
          /\ containerLog[i].own = "paymentContainer"
    /\ SagaSeen(1) = Extension("orderContainer")
    /\ InvokedSteps = <<2, 1>>

\* The scopes created for the invocation, by run or for a handler it embeds.
ScopesCreated(invocation) ==
    SelectSeq(containerLog, LAMBDA e : IsScopeCreate(e) /\ e.inv = invocation)

\* C23: each top-level invocation has exactly one scope, created by run and
\* never for an embedded handler; every handler of the invocation, embedded
\* or not, and every step it calls is given the services of that scope; the
\* scopes of two invocations differ.
C23_OneScopePerInvocation ==
    /\ \A i \in Invocations :
          (i # self \/ pc # "idle") =>
              /\ Len(ScopesCreated(i)) = 1
              /\ ScopesCreated(i)[1].frame = 0
              /\ GivenSaga(i, 0) = ScopesCreated(i)[1].saga
    /\ \A n \in 1..Len(containerLog) :
          IsHandler(containerLog[n]) =>
              containerLog[n].saga = GivenSaga(containerLog[n].inv, 0)
    /\ \A k \in 1..Len(calls) : SagaSeen(k) = GivenSaga(owner[k].inv, 0)
    /\ \A i, j \in Invocations :
          (i < j /\ (j # self \/ pc # "idle")) => GivenSaga(i, 0) # GivenSaga(j, 0)

C23_Witness ==
    /\ Len(suspended) = 2
    /\ self = 2
    /\ Len(calls) = 3
    /\ owner[1].inv = 1
    /\ owner[1].path = <<0, 1>>
    /\ owner[2].inv = 2
    /\ owner[3].path = <<0, 2>>
    /\ SagaSeen(1) = Extension("scope1")
    /\ SagaSeen(3) = Extension("scope2")
    /\ Len(SelectSeq(containerLog, IsScopeCreate)) = 2

\* Where invocation i is and what it ended with.
StateOf(i) ==
    IF i = self THEN [pc |-> pc, result |-> result]
    ELSE [pc |-> suspended[i].pc, result |-> suspended[i].result]

\* The calls of the disposal policy for the invocation.
DisposeCalls(invocation) ==
    SelectSeq(containerLog, LAMBDA e : IsScopeDispose(e) /\ e.inv = invocation)

\* The disposal policy is never invoked twice for an invocation, nor before
\* its handler settled; it is given the scope of the invocation, and the
\* failure the invocation ended with when it failed, no failure otherwise.
DisposedOnceSettled ==
    \A i \in Invocations :
        /\ Len(DisposeCalls(i)) <= 1
        /\ Len(DisposeCalls(i)) = 1 =>
              /\ StateOf(i).pc \in {"succeeded", "failed"}
              /\ DisposeCalls(i)[1].saga = GivenSaga(i, 0)
              /\ StateOf(i).pc = "succeeded" => DisposeCalls(i)[1].error = NoError
              /\ StateOf(i).pc = "failed" =>
                    /\ DisposeCalls(i)[1].error # NoError
                    /\ DisposeCalls(i)[1].error = StateOf(i).result

\* C24: the disposal policy is invoked once the handler of a top-level
\* invocation has settled, by success or by failure, and then exactly once,
\* never before; on failure it receives the failure.
C24_DisposedOnceAfterSettling ==
    /\ []DisposedOnceSettled
    /\ Settled ~> (Disposals(self) = 1)

C24_Witness ==
    /\ Len(suspended) = 2
    /\ self = 2
    /\ suspended[1].pc = "succeeded"
    /\ pc = "failed"
    /\ UnwindComplete
    /\ InvokedSteps = <<2>>
    /\ DisposeCalls(1) = <<ContainerEvent("scope:dispose", 1, 0, RootContainer,
                                          Extension("scope1"), NoError)>>
    /\ DisposeCalls(2) = <<ContainerEvent("scope:dispose", 2, 0, RootContainer,
                                          Extension("scope2"),
                                          TerminalError("capture failed"))>>

\* ------------------------------------------------------------- classifier
\* The recorded call had a step-level mapper that returned a terminal error.
StepMapperClassified(c) ==
    c.stepMapper # "none" /\ ApplyMapper(c.stepMapper, c.err) # NoError
\* The error of the recorded call is an instance of a class registered then.
MatchesRegisteredClass(c) ==
    \E cls \in c.classes : InstanceOf(c.err, cls)

\* C17: when the step-level mapper returns a terminal error, that error,
\* with the mapper's message, is the result of resolveTerminalError, also for
\* an error that is an instance of a registered class.
C17_StepMapperWins ==
    StepMapperClassified(classification) =>
        classification.result =
            ApplyMapper(classification.stepMapper, classification.err)

C17_Witness ==
    /\ classification.err = ValidationError
    /\ "ValidationError" \in classification.classes
    /\ classification.stepMapper = "mapValidation"
    /\ classification.result = TerminalError("step: validation")

\* C18: when a step-level mapper is present and returns undefined for an
\* error that is an instance of a registered class, the result is a
\* TerminalError with the message of the error.
C18_StepDefersToRegistry ==
    (/\ classification.stepMapper # "none"
     /\ ~StepMapperClassified(classification)
     /\ MatchesRegisteredClass(classification)) =>
        classification.result = TerminalError(classification.err.message)

C18_Witness ==
    /\ classification.stepMapper = "defer"
    /\ classification.err = ValidationError
    /\ classification.classes = {"ValidationError"}
    /\ classification.result = TerminalError("invalid email")

\* C19: the global mapper is called only when the step-level mapper, if
\* any, returned no terminal error and the error is an instance of no
\* registered class; when a registered class matches, the result carries
\* the message of the error and the global mapper is not called.
C19_GlobalMapperLast ==
    /\ classification.run.globalCalled =>
          /\ ~StepMapperClassified(classification)
          /\ ~MatchesRegisteredClass(classification)
          /\ classification.globalMapper # Null
    /\ (~StepMapperClassified(classification)
        /\ MatchesRegisteredClass(classification)) =>
          /\ ~classification.run.globalCalled
          /\ classification.result = TerminalError(classification.err.message)

C19_Witness ==
    /\ classification.err = EmailError
    /\ classification.classes = {"ValidationError"}
    /\ classification.globalMapper = "mapAny"
    /\ classification.stepMapper = "none"
    /\ classification.result = TerminalError("no @ in address")

\* ------------------------------------------------------ unclassified errors
\* The error in flight was thrown by a forward action and no classifier
\* returned a terminal error for it.
Unclassified == origin # NoOrigin /\ ~origin.classified

\* C20 as stated: an error of a forward action that no classifier classified
\* is raised unchanged, and then no unwind happens and no compensation is
\* invoked.
C20_Original ==
    Unclassified =>
        /\ thrown = origin.err
        /\ ~Unwound
        /\ CompensateCalls = <<>>

\* C20 amended: an error of a forward action that no classifier classified
\* is raised by the step unchanged; when it is not itself a TerminalError
\* and it escapes the handler, the runner does not unwind, no compensation
\* is invoked and the invocation raises it.
C20_UnclassifiedPassesUnchanged ==
    Unclassified =>
        /\ thrown = origin.err
        /\ ~IsTerminalError(origin.err) =>
              /\ pc \in {"thrown", "raised"}
              /\ CompensateCalls = <<>>
              /\ pc = "raised" => result = origin.err

C20_Witness ==
    /\ pc = "raised"
    /\ origin = Origin(NetworkError, FALSE)
    /\ result = NetworkError
    /\ raisedBy = 2
    /\ IsHybridWithCompensation(2)
    /\ Len(compensations) = 2

\* ------------------------------------------------- the stack at the end
\* Every step called so far ran its forward action without error.
NoStepError == \A k \in 1..Len(calls) : outcome[k].kind = "success"

RECURSIVE WithCompensation(_)
\* The step calls up to n that have a compensate function, in call order.
WithCompensation(n) ==
    IF n = 0 THEN <<>>
    ELSE WithCompensation(n - 1) \o (IF calls[n].compensate THEN <<n>> ELSE <<>>)

\* C25 as stated: after N steps that all ran without error, the stack of
\* the invocation is empty when the invocation ends.
C25_Original ==
    (pc = "succeeded" /\ NoStepError) => compensations = <<>>

\* C25 amended: after N steps that all ran without error, the stack of the
\* invocation holds at its end one entry for each step that has a
\* compensate function, in call order, and none of them was invoked; it is
\* empty only when no step had a compensate function.
C25_StackKeptUninvoked ==
    (pc = "succeeded" /\ NoStepError) =>
        /\ StepsOf(compensations) = WithCompensation(Len(calls))
        /\ CompensateCalls = <<>>

C25_Witness ==
    /\ pc = "succeeded"
    /\ NoStepError
    /\ Len(calls) = MaxSteps
    /\ Len(compensations) = 2
    /\ \E k \in 1..Len(calls) : calls[k].mode = "strict" /\ calls[k].compensate

\* ------------------------------------------------------- one unwind
\* The number of calls made so far to the compensate function of entry i of
\* the stack being unwound.
InvocationsOf(i) == Occurrences(InvokedSteps, compensations[i].step)

\* C26 as stated: when the unwind has ended, every entry that was on the
\* stack when the terminal error escaped the handler was invoked exactly
\* once.
C26_Original ==
    pc = "failed" =>
        \A i \in 1..Len(compensations) : InvocationsOf(i) = 1

\* C26 amended: during one unwind no entry is invoked twice; when the loop
\* ran to its end every entry was invoked exactly once; when a compensation
\* raised, the entries up to the one that raised were invoked once each and
\* the entries after it were not invoked.
C26_EachEntryAtMostOnce ==
    Unwound =>
        /\ \A i \in 1..Len(compensations) : InvocationsOf(i) <= 1
        /\ UnwindComplete =>
              \A i \in 1..Len(compensations) : InvocationsOf(i) = 1
        /\ (pc = "failed" /\ CompensationRaised) =>
              \A i \in 1..Len(compensations) :
                  InvocationsOf(i) = IF i <= idx THEN 1 ELSE 0

C26_Witness ==
    /\ UnwindComplete
    /\ Len(compensations) = MaxSteps
    /\ \A i \in 1..Len(compensations) : InvocationsOf(i) = 1

\* ----------------------------------------------------------- attempts
\* The state of the invocation in the runner's state machine.  An attempt
\* that raised a non-terminal error leaves the invocation running: Restate
\* makes the next attempt.
InvocationState ==
    CASE pc = "succeeded" -> "Succeeded"
      [] pc = "unwinding" -> "Unwinding"
      [] pc = "failed" -> "Failed"
      [] OTHER -> "Running"

IsRun(e) == e.ev = "run"
\* The forward actions started so far.
ForwardStarts == Len(SelectSeq(log, IsRun))

\* C27: the invocation goes from Running to Succeeded, or from Running to
\* Unwinding and from there to Failed, and makes no other move; once the
\* unwind has begun no forward action is started and no normal result is
\* returned.
C27_RunnerStateMachine ==
    [][/\ <<InvocationState, InvocationState'>> \in
             {<<"Running", "Running">>, <<"Running", "Succeeded">>,
              <<"Running", "Unwinding">>, <<"Unwinding", "Unwinding">>,
              <<"Unwinding", "Failed">>}
       /\ InvocationState \in {"Unwinding", "Failed"} =>
             /\ ForwardStarts' = ForwardStarts
             /\ result' # Returned
             /\ pc' # "succeeded"]_vars

C27_Witness ==
    /\ Len(suspended) = 2
    /\ suspended[1].pc = "raised"
    /\ pc = "failed"
    /\ Len(CompensateCalls) = 2

\* --------------------------------------------- a compensation that raises
\* C28: when the compensation of an entry raises, the loop ends there: the
\* entries after it in the order of the unwind are not invoked, the one that
\* raised is the last one invoked, and the invocation ends by raising the
\* compensation's error, not the terminal error that escaped the handler.
C28_UnwindStopsAtRaisingEntry ==
    CompensationRaised =>
        /\ pc = "failed"
        /\ result = CompensationError
        /\ result # thrown
        /\ InvokedSteps = StepsOf(SubSeq(compensations, 1, idx))
        /\ log[Len(log)] = Event("compensateThrew", compensations[idx].step,
                                 Undefined, <<>>)
        /\ \A i \in (idx + 1)..Len(compensations) : InvocationsOf(i) = 0

C28_Witness ==
    /\ pc = "failed"
    /\ CompensationRaised
    /\ Len(compensations) = 3
    /\ idx = 2
    /\ InvokedSteps = <<3, 2>>

\* The attempts made so far; the latest one is `self`.
Attempts == 1..Len(suspended)

\* The step calls of attempt a whose entry was pushed, in push order.
PushedIn(a) == SelectSeq(PushedSteps, LAMBDA k : owner[k].inv = a)

\* C29: the stack of an attempt holds entries pushed in that attempt only,
\* so it is empty until the attempt pushes; the attempts before the latest
\* ended with a non-terminal error and no entry pushed in them is ever
\* invoked, nor is any entry while the latest attempt has not begun to
\* unwind; when the latest attempt fails terminally, the entries invoked are
\* exactly the ones pushed in it, last pushed first.
C29_AttemptsStartEmpty ==
    /\ pc \in {"running", "inStep", "thrown", "raised", "succeeded"} =>
          StepsOf(compensations) = PushedIn(self)
    /\ Unwound => StepsOf(compensations) = Reverse(PushedIn(self))
    /\ \A a \in Attempts \ {self} :
          /\ suspended[a].pc = "raised"
          /\ ~IsTerminalError(suspended[a].result)
    /\ \A u \in 1..Len(unwinds) :
          /\ unwinds[u].inv = self
          /\ owner[unwinds[u].step].inv = self
    /\ ~Unwound => unwinds = <<>>
    /\ UnwindComplete => InvokedSteps = Reverse(PushedIn(self))

C29_Witness ==
    /\ Len(suspended) = 2
    /\ UnwindComplete
    /\ PushedIn(1) = <<1>>
    /\ StepsOf(suspended[1].compensations) = <<1>>
    /\ PushedIn(2) = <<2, 3>>
    /\ InvokedSteps = <<3, 2>>

\* ------------------------------------------- the runner and the classifier
\* The error that escaped came from handler code outside any step.
ThrownByHandlerCode == thrown # NoError /\ raisedBy = 0

\* C30: the runner unwinds exactly when the error that escaped the handler
\* is a TerminalError, whatever the registry holds: an error thrown by
\* handler code outside any step that the registry would classify as
\* terminal is raised to the caller as it is, and no compensation is invoked.
C30_RunnerDoesNotClassify ==
    /\ Unwound => IsTerminalError(thrown)
    /\ pc = "raised" =>
          /\ ~IsTerminalError(thrown)
          /\ result = thrown
          /\ CompensateCalls = <<>>
    /\ (ThrownByHandlerCode /\ ~IsTerminalError(thrown)) =>
          /\ pc \in {"thrown", "raised"}
          /\ CompensateCalls = <<>>

C30_Witness ==
    /\ pc = "raised"
    /\ ThrownByHandlerCode
    /\ thrown = EmailError
    /\ terminalErrorClasses = {"ValidationError"}
    /\ resolveTerminalError(thrown, "none") = TerminalError(EmailError.message)
    /\ Len(compensations) = 2
    /\ CompensateCalls = <<>>

\* ------------------------------------------ steps started before awaited
\* The place of step call k in the order of the pushes.
PushIndex(k) == CHOOSE n \in 1..Len(PushedSteps) : PushedSteps[n] = k

\* C31 as stated: the compensations are invoked in the reverse of the order
\* in which their entries were pushed, also when the handler starts steps
\* before awaiting them: no entry is invoked after an entry pushed before it,
\* an entry pushed once the unwind has begun included.
C31_Original ==
    \A i, j \in 1..Len(InvokedSteps) :
        i < j => PushIndex(InvokedSteps[i]) > PushIndex(InvokedSteps[j])

\* ------------------------------------------------ one compensation at a time
IsCompensated(e) == e.ev = "compensated"
\* The calls of compensate functions and their ends, in the order they
\* happened.
CompensationEvents ==
    SelectSeq(log, LAMBDA e : IsCompensate(e) \/ IsCompensated(e)
                                \/ IsCompensateThrew(e))
\* The compensation actions called and not yet ended.
InFlight ==
    Len(CompensateCalls) - Len(SelectSeq(log, IsCompensated))
                         - Len(SelectSeq(log, IsCompensateThrew))

\* C32: at most one compensation action of the invocation is in flight, and
\* a compensation is called only once the one called before it has ended:
\* calls and ends alternate, each end being that of the call before it, and
\* a call follows a normal end only.
C32_OneCompensationAtATime ==
    /\ InFlight \in {0, 1}
    /\ InFlight = 1 <=> pc = "compensating"
    /\ \A n \in 1..Len(CompensationEvents) :
          IF n % 2 = 1
          THEN /\ IsCompensate(CompensationEvents[n])
               /\ n > 1 => IsCompensated(CompensationEvents[n - 1])
          ELSE /\ ~IsCompensate(CompensationEvents[n])
               /\ CompensationEvents[n].step = CompensationEvents[n - 1].step

C32_Witness ==
    /\ pc = "compensating"
    /\ Len(CompensateCalls) = 3
    /\ InFlight = 1

\* ------------------------------------------------------------ termination
\* A terminal error has left the handler and is on its way to the runner.
TerminalErrorEscaped == pc = "thrown" /\ IsTerminalError(thrown)

CompensateCallsOf(k) == SelectSeq(CompensateCalls, LAMBDA e : e.step = k)

\* Step call k failed and its error did not leave the handler: the handler
\* caught it and went on.
CaughtFailure(k) ==
    /\ outcome[k].kind \in {"permanentFailure", "threwTerminal", "threw"}
    /\ raisedBy # k

\* C34: the entry of a hybrid step stays on the stack when the step fails
\* and the handler catches its error; when a terminal error later leaves the
\* handler and the unwind runs to its end, the compensation of that step was
\* called once, with failed = true; when the handler returns normally it is
\* not called.
C34_CaughtFailureStaysRegistered ==
    \A k \in 1..Len(calls) :
        (IsHybridWithCompensation(k) /\ CaughtFailure(k)) =>
            /\ Occurrences(StepsOf(compensations), k) = 1
            /\ UnwindComplete =>
                  /\ Len(CompensateCallsOf(k)) = 1
                  /\ CompensateCallsOf(k)[1].context = <<[failed |-> TRUE]>>
            /\ pc = "succeeded" => CompensateCallsOf(k) = <<>>

C34_Witness ==
    /\ UnwindComplete
    /\ catches = 1
    /\ Len(calls) = 3
    /\ IsHybridWithCompensation(1)
    /\ outcome[1].kind = "permanentFailure"
    /\ raisedBy = 3
    /\ InvokedSteps = <<3, 2, 1>>
    /\ CompensateCallsOf(1)[1].context = <<[failed |-> TRUE]>>

\* ------------------------------------------------- the error of a failure
\* C35: when the forward action of a step, hybrid or strict, returns a
\* permanent failure, the step raises a TerminalError whose message is that
\* of the failure, or "Step failed permanently" when that message is empty.
C35_FailureMessage ==
    [][\A response \in Responses :
          (response.failed /\ StepReturns(response)) =>
              /\ pc' = "thrown"
              /\ raisedBy' = CurrentCall
              /\ IsTerminalError(thrown')
              /\ thrown'.message = IF response.errorMessage = ""
                                   THEN "Step failed permanently"
                                   ELSE response.errorMessage]_vars

C35_Witness ==
    /\ pc = "thrown"
    /\ Len(calls) = 2
    /\ raisedBy = 2
    /\ calls[2].mode = "strict"
    /\ outcome[2].kind = "permanentFailure"
    /\ thrown = TerminalError("Step failed permanently")
    /\ calls[1].mode = "hybrid"
    /\ outcome[1].kind = "permanentFailure"
    /\ catches = 1

\* ------------------------------------------- the registry of the process
\* What the registry holds after the operations made so far, by whichever
\* invocation, classifies err as terminal.
TerminalByRegistry(err) ==
    \/ \E errorClass \in Replay(operations) : InstanceOf(err, errorClass)
    \/ globalMapper # Null /\ ApplyMapper(globalMapper, err) # NoError

\* C36: a step classifies the error of its forward action with the registry
\* as it is at that moment, the result of the register, unregister, clear
\* and set-global-mapper calls made until then by all the invocations of the
\* process: the error is turned into a TerminalError iff that registry says
\* so, whichever invocation made the calls.
C36_RegistryReadAtClassification ==
    (pc = "thrown" /\ raisedBy # 0) =>
        /\ origin.classified <=> TerminalByRegistry(origin.err)
        /\ IsTerminalError(thrown) <=> TerminalByRegistry(origin.err)
        /\ ~origin.classified => thrown = origin.err

C36_Witness ==
    /\ pc = "thrown"
    /\ self = 2
    /\ owner[raisedBy].inv = 2
    /\ origin = Origin(ValidationError, TRUE)
    /\ operations = <<OperationBy(1, "register", {"ValidationError"})>>
    /\ \E k \in 1..Len(calls) :
          /\ owner[k].inv = 1
          /\ outcome[k].kind = "threw"

\* ------------------------------------------- the scope during the unwind
\* The compensations invoked so far by the unwind of an invocation.
UnwoundBy(invocation) ==
    Cardinality({u \in 1..Len(unwinds) : unwinds[u].inv = invocation})

\* C37: with the scoped factory a compensation is invoked, and ends, while
\* the scope of its invocation has not been disposed; the scope of an
\* invocation that failed is disposed once the unwind is over, after the
\* last compensation, and the steps' actions are given the saga holding the
\* scope.
C37_ScopeOutlivesUnwind ==
    [][/\ Len(CompensateCalls') > Len(CompensateCalls) =>
             /\ self' = self
             /\ Disposals(self) = 0
             /\ Disposals(self)' = 0
             /\ SagaSeen(unwinds'[Len(unwinds')].step).container
                   = GivenSaga(self, 0).container
       /\ (self' = self /\ Disposals(self)' > Disposals(self)) =>
             /\ pc \in {"succeeded", "failed"}
             /\ pc' = pc
             /\ (pc = "failed" /\ ~CompensationRaised) =>
                   UnwoundBy(self) = Len(compensations)]_vars

C37_Witness ==
    /\ pc = "failed"
    /\ Disposals(self) = 1
    /\ Len(compensations) = 2
    /\ UnwoundBy(self) = 2
    /\ IsScopeDispose(containerLog[Len(containerLog)])
    /\ IsTerminalError(containerLog[Len(containerLog)].error)
    /\ \E k \in 1..Len(calls) : IsEmbeddedCall(k)

\* ------------------------------------------------ values that are not Errors
\* The recorded call classified a value that is not an Error object.
NonErrorClassified == classification.err.kind = "NonError"

\* C38: a thrown value that is not an Error object matches no registered
\* class, whatever is registered: when the classifier returns a terminal
\* error for it, that error is the one the step-level mapper returned, or
\* else the one the global mapper returned; when neither returns one, the
\* value is unclassified.
C38_NonErrorMatchesNoClass ==
    NonErrorClassified =>
        LET c == classification
            byStep == IF c.stepMapper = "none" THEN NoError
                      ELSE ApplyMapper(c.stepMapper, c.err)
            byGlobal == IF c.globalMapper = Null THEN NoError
                        ELSE ApplyMapper(c.globalMapper, c.err)
        IN /\ c.result = IF byStep # NoError THEN byStep ELSE byGlobal
           /\ c.run.stepCalled <=> c.stepMapper # "none"
           /\ c.run.globalCalled <=> (byStep = NoError /\ c.globalMapper # Null)

C38_Witness ==
    /\ NonErrorClassified
    /\ classification.classes = ErrorClasses
    /\ classification.globalMapper = "mapNetwork"
    /\ classification.stepMapper = "mapValidation"
    /\ classification.result = NoError
    /\ classification.run.stepCalled
    /\ classification.run.globalCalled

\* ------------------------------------------------------ virtual object
\* The error that left the handler of invocation i.
ThrownOf(i) == IF i = self THEN thrown ELSE suspended[i].thrown

\* The step calls whose compensation invocation i invoked, in order.
UnwoundStepsOf(i) ==
    LET mine == SelectSeq(unwinds, LAMBDA u : u.inv = i)
    IN [n \in 1..Len(mine) |-> mine[n].step]

\* C39: an invocation of an exclusive handler of a saga virtual object does
\* what the workflow runner does: its stack holds the entries of its own
\* steps only, a terminal error that leaves the handler unwinds them from
\* the last pushed to the first and is then raised, any other error is raised
\* with no unwind.  An invocation of a shared handler has no stack, calls no
\* step, never unwinds, and its error is raised as it is, terminal or not.
C39_ExclusiveHandlersAreRunners ==
    \A i \in 1..Len(containerLog) :
        LET st == StateOf(i)
        IN IF HandlerKind(i) = "exclusive"
           THEN /\ StepsOf(StackOf(i)) \in {PushedIn(i), Reverse(PushedIn(i))}
                /\ IsPrefix(UnwoundStepsOf(i), Reverse(PushedIn(i)))
                /\ st.pc \in {"unwinding", "failed"} =>
                      /\ IsTerminalError(ThrownOf(i))
                      /\ StepsOf(StackOf(i)) = Reverse(PushedIn(i))
                /\ (st.pc = "failed" /\ st.result # CompensationError) =>
                      /\ UnwoundStepsOf(i) = Reverse(PushedIn(i))
                      /\ st.result = ThrownOf(i)
                /\ st.pc = "raised" =>
                      /\ UnwoundStepsOf(i) = <<>>
                      /\ ~IsTerminalError(st.result)
                      /\ st.result = ThrownOf(i)
           ELSE /\ StackOf(i) = <<>>
                /\ \A k \in 1..Len(calls) : owner[k].inv # i
                /\ UnwoundStepsOf(i) = <<>>
                /\ st.pc \notin {"inStep", "unwinding", "failed"}
                /\ st.pc = "raised" => st.result = ThrownOf(i)

C39_Witness ==
    /\ Len(containerLog) = 3
    /\ self = 3
    /\ HandlerKind(1) = "exclusive"
    /\ HandlerKind(2) = "shared"
    /\ HandlerKind(3) = "exclusive"
    /\ suspended[1].pc = "failed"
    /\ unwinds = <<Unwind(2, 1, 1), Unwind(1, 1, 1)>>
    /\ suspended[2].pc = "raised"
    /\ suspended[2].result = TerminalError("fatal")
    /\ StepsOf(compensations) = <<3>>

====
